---------------------------- MODULE Spec2Model ----------------------------
(***************************************************************************)
(* A model of the simulation core of w0rmw00d.py: the per-frame update of  *)
(* Game (round director, spawning, combat resolution) and of Player        *)
(* (movement, jump, attack state machine, animation), with the falling     *)
(* actors Enemy, MatrixCharacter and Pill.                                 *)
(*                                                                         *)
(* Units.  Python keeps positions and velocities as floats.  The model     *)
(* keeps them as integers in hundredths of a pixel (Scale), so that the    *)
(* 0.5 steps of drop_speed, the 0.85 and 0.95 decay factors and the        *)
(* normalised knockback direction are computed and not rounded away;       *)
(* products are rounded to the nearest hundredth (the knockback decay is   *)
(* cut towards zero, see Decayed).  int(...) truncates to whole pixels as  *)
(* in Python.                                                              *)
(*                                                                         *)
(* Assets.  The repository ships no image files, so load_player_frames     *)
(* takes its placeholder path: every frame is 48 x 48, every directional   *)
(* set and the idle set hold two frames, the punch sets hold 2 (left) and  *)
(* 3 (right) frames.  The glyph sizes of the falling actors come from the  *)
(* system font and are fixed here (CharW .. EnemyH).                       *)
(***************************************************************************)
EXTENDS Integers, Sequences, FiniteSets, TLC

VARIABLES
    state,          \* Game.state
    score,          \* Game.score
    keys_collected, \* Game.keys_collected
    health,         \* Game.health
    spawn_timer,    \* Game.spawn_timer
    game_time,      \* Game.game_time
    current_round,  \* Game.current_round
    pill_offered,   \* Game.pill_offered
    drop_speed,     \* global drop_speed, in hundredths
    enable_3d,      \* global enable_3d
    current_mode,   \* global current_mode
    player,         \* Game.player (a Player record)
    characters,     \* Game.characters, in insertion order
    enemies,        \* Game.enemies, in insertion order
    pills,          \* Game.pills, in insertion order
    last,           \* history: the last operation and its input snapshot
    term            \* the locals of seed.py's matrix_effect_pygame (a record)

vars == <<state, score, keys_collected, health, spawn_timer, game_time,
          current_round, pill_offered, drop_speed, enable_3d, current_mode,
          player, characters, enemies, pills, last, term>>

-----------------------------------------------------------------------------
(* Program constants *)

Scale == 100

SCREEN_WIDTH == 1000
SCREEN_HEIGHT == 700
MATRIX_HEIGHT == 500

STATE_MENU == 0
STATE_PLAYING == 1
STATE_GAME_OVER == 2
STATE_ROUND_COMPLETE == 3

MIN_DEPTH == 0
MAX_DEPTH == 100

FrameSize == 48           \* target_h: every placeholder frame is 48 x 48
PlayerSpeed == 6          \* Player.speed
Gravity == 1              \* Player.gravity
JumpStrength == -16       \* Player.jump_strength
FlyThrust == -6           \* vy while flying
WallJumpImpulse == 10     \* vx given by a wall jump
WallSlideMax == 3         \* vy clamp while sliding on a wall
MaxJumps == 2             \* Player.max_jumps
DepthSpeed == 3           \* Player.depth_speed
AnimationSpeed == 8       \* Player.animation_speed
IdleAnimationSpeed == 3   \* Player.idle_animation_speed
AttackDuration == 15      \* Player.attack_duration
AttackCooldownDuration == 20  \* Player.attack_cooldown_duration
AttackRange == 80         \* Player.attack_range
AttackParryWindow == 3    \* Player.attack_parry_window
PunchFramesLeft == 2      \* len(PUNCH_FRAMES_LEFT)
PunchFramesRight == 3     \* len(PUNCH_FRAMES_RIGHT)

CharW == 11               \* glyph of a collectible (Consolas 20)
CharH == 23
EnemyW == 13              \* glyph "X" of an enemy (Consolas 24 bold)
EnemyH == 28
PillW == 30               \* Pill surface
PillH == 15

OffScreenMargin == 50     \* Enemy.update: 50 beyond each screen edge
RoundScore == 200         \* score that completes a round
PillScore == 999          \* score that offers the pills
FinalRound == 3           \* last round that can be completed
FullHealth == 100
MissDamage == 10
EnemyReward == 10
ParryForce == 40
MissForce == 30
RangedForce == 35
SpawnInterval == 20
RampPeriod == 300
MaxDropSpeed == 10
InitialDropSpeed == 2

-----------------------------------------------------------------------------
(* Arithmetic helpers *)

Abs(v) == IF v < 0 THEN -v ELSE v
Min(a, b) == IF a < b THEN a ELSE b
Max(a, b) == IF a > b THEN a ELSE b

\* int(v) for v in hundredths: truncation toward zero to a whole pixel count
IntPx(v) == IF v >= 0 THEN v \div Scale ELSE -((-v) \div Scale)

\* a / b rounded to the nearest integer (b > 0), halves away from zero
RoundDiv(a, b) ==
    IF a >= 0 THEN (2 * a + b) \div (2 * b) ELSE -((2 * (-a) + b) \div (2 * b))

\* floor of the square root, by bisection
RECURSIVE SqrtBisect(_, _, _)
SqrtBisect(n, lo, hi) ==
    IF hi - lo <= 1 THEN lo
    ELSE LET mid == (lo + hi) \div 2
         IN  IF mid * mid <= n THEN SqrtBisect(n, mid, hi)
             ELSE SqrtBisect(n, lo, mid)
ISqrt(n) == SqrtBisect(n, 0, 46341)

\* pygame.Rect.colliderect for rectangles [x, y, w, h] in whole pixels
CollideRect(a, b) ==
    /\ a.x < b.x + b.w
    /\ b.x < a.x + a.w
    /\ a.y < b.y + b.h
    /\ b.y < a.y + a.h

Rect(x, y, w, h) == [x |-> x, y |-> y, w |-> w, h |-> h]


-----------------------------------------------------------------------------
(* Player *)

Image(set, idx) == [set |-> set, idx |-> idx]

\* Player.__init__(x, y) for the placeholder frame sets
NewPlayer(x, y) ==
    [ x |-> x * Scale, y |-> y * Scale, z |-> 0,
      vx |-> 0, vy |-> 0,
      on_ground |-> FALSE, on_wall |-> FALSE, wall_dir |-> "none",
      jumps_left |-> MaxJumps, is_jumping |-> FALSE,
      prev_up_pressed |-> FALSE, left_pressed |-> FALSE,
      right_pressed |-> FALSE, up_pressed |-> FALSE,
      any_dir_pressed |-> FALSE,
      facing |-> "down", active_set |-> "none", last_direction |-> "none",
      frame_index |-> 0, animation_timer |-> 0,
      image |-> Image("idle", 0), img_w |-> FrameSize,
      is_attacking |-> FALSE, attack_timer |-> 0, attack_cooldown |-> 0 ]

\* self.rect.width / 2 (and height / 2: frames are square), in hundredths
HalfW(p) == (p.img_w * Scale) \div 2

\* Player.sync_rect: the rect of the current image centred on int(pos)
PlayerRect(p) ==
    Rect(IntPx(p.x) - p.img_w \div 2, IntPx(p.y) - p.img_w \div 2,
         p.img_w, p.img_w)

\* Player.apply_depth_scale: the side of a 48 x 48 frame after scaling
ScaledSize(z, e3d) ==
    IF ~e3d THEN FrameSize
    ELSE LET zc == Max(MIN_DEPTH, Min(MAX_DEPTH, z))
         IN  IF zc = 0 THEN FrameSize
             ELSE Max(1, (FrameSize * (2 * MAX_DEPTH - zc)) \div (2 * MAX_DEPTH))

\* int(self.jump_strength * 0.9)
WallJumpVy == -(((-JumpStrength) * 9) \div 10)

\* a faulty trigger: the held up-control triggers a jump on every tick
JumpKindHeld(p, up, mode) ==
    IF mode = "math" \/ ~up THEN "none"
    ELSE IF p.on_ground THEN "ground"
    ELSE IF p.on_wall THEN "wall"
    ELSE IF p.jumps_left > 0 THEN "air"
    ELSE "none"

\* which jump the rising edge of the up-control triggers
JumpKind(p, up, mode) ==
    IF mode = "math" \/ ~up \/ p.prev_up_pressed THEN "none"
    ELSE IF p.on_ground THEN "ground"
    ELSE IF p.on_wall THEN "wall"
    ELSE IF p.jumps_left > 0 THEN "air"
    ELSE "none"

\* the up-control of a key snapshot k = [a, d, w, s, space]
UpPressed(k, e3d) == IF e3d THEN k.space ELSE (k.w \/ k.space)

\* Player.handle_input, depth part
InputDepth(p, k, e3d) ==
    LET z1 == IF e3d /\ k.w THEN Max(MIN_DEPTH, p.z - DepthSpeed) ELSE p.z
    IN  IF e3d /\ k.s THEN Min(MAX_DEPTH, z1 + DepthSpeed) ELSE z1

\* Player.handle_input, left/right movement
InputMoveX(p, k) ==
    LET x1 == IF k.a /\ (p.x - HalfW(p)) > 0
              THEN p.x - PlayerSpeed * Scale ELSE p.x
    IN  IF k.d /\ (x1 + HalfW(p)) < SCREEN_WIDTH * Scale
        THEN x1 + PlayerSpeed * Scale ELSE x1

\* a faulty ground jump: it spends a unit of the jump budget
InputJumpGround(p, k, mode, e3d) ==
    LET up == UpPressed(k, e3d)
        kind == JumpKind(p, up, mode)
    IN  IF mode = "math"
        THEN IF up THEN [p EXCEPT !.vy = FlyThrust * Scale, !.on_ground = FALSE]
             ELSE p
        ELSE CASE kind = "ground" ->
                    [p EXCEPT !.vy = JumpStrength * Scale, !.on_ground = FALSE,
                              !.jumps_left = p.jumps_left - 1]
               [] kind = "wall" ->
                    [p EXCEPT !.vy = WallJumpVy * Scale,
                              !.vx = IF p.wall_dir = "left"
                                     THEN WallJumpImpulse * Scale
                                     ELSE IF p.wall_dir = "right"
                                     THEN -(WallJumpImpulse * Scale)
                                     ELSE p.vx,
                              !.on_wall = FALSE]
               [] kind = "air" ->
                    [p EXCEPT !.vy = JumpStrength * Scale,
                              !.jumps_left = p.jumps_left - 1]
               [] OTHER -> p

\* a faulty wall jump: it spends a unit of the jump budget
InputJumpSpend(p, k, mode, e3d) ==
    LET up == UpPressed(k, e3d)
        kind == JumpKind(p, up, mode)
    IN  IF mode = "math"
        THEN IF up THEN [p EXCEPT !.vy = FlyThrust * Scale, !.on_ground = FALSE]
             ELSE p
        ELSE CASE kind = "ground" ->
                    [p EXCEPT !.vy = JumpStrength * Scale, !.on_ground = FALSE]
               [] kind = "wall" ->
                    [p EXCEPT !.vy = WallJumpVy * Scale,
                              !.vx = IF p.wall_dir = "left"
                                     THEN WallJumpImpulse * Scale
                                     ELSE IF p.wall_dir = "right"
                                     THEN -(WallJumpImpulse * Scale)
                                     ELSE p.vx,
                              !.jumps_left = p.jumps_left - 1,
                              !.on_wall = FALSE]
               [] kind = "air" ->
                    [p EXCEPT !.vy = JumpStrength * Scale,
                              !.jumps_left = p.jumps_left - 1]
               [] OTHER -> p

\* a faulty air jump: it leaves the jump budget as it is
InputJumpFree(p, k, mode, e3d) ==
    LET up == UpPressed(k, e3d)
        kind == JumpKind(p, up, mode)
    IN  IF mode = "math"
        THEN IF up THEN [p EXCEPT !.vy = FlyThrust * Scale, !.on_ground = FALSE]
             ELSE p
        ELSE CASE kind = "ground" ->
                    [p EXCEPT !.vy = JumpStrength * Scale, !.on_ground = FALSE]
               [] kind = "wall" ->
                    [p EXCEPT !.vy = WallJumpVy * Scale,
                              !.vx = IF p.wall_dir = "left"
                                     THEN WallJumpImpulse * Scale
                                     ELSE IF p.wall_dir = "right"
                                     THEN -(WallJumpImpulse * Scale)
                                     ELSE p.vx,
                              !.on_wall = FALSE]
               [] kind = "air" ->
                    [p EXCEPT !.vy = JumpStrength * Scale]
               [] OTHER -> p

\* Player.handle_input, jump / fly part
InputJump(p, k, mode, e3d) ==
    LET up == UpPressed(k, e3d)
        kind == JumpKind(p, up, mode)
    IN  IF mode = "math"
        THEN IF up THEN [p EXCEPT !.vy = FlyThrust * Scale, !.on_ground = FALSE]
             ELSE p
        ELSE CASE kind = "ground" ->
                    [p EXCEPT !.vy = JumpStrength * Scale, !.on_ground = FALSE]
               [] kind = "wall" ->
                    [p EXCEPT !.vy = WallJumpVy * Scale,
                              !.vx = IF p.wall_dir = "left"
                                     THEN WallJumpImpulse * Scale
                                     ELSE IF p.wall_dir = "right"
                                     THEN -(WallJumpImpulse * Scale)
                                     ELSE p.vx,
                              !.on_wall = FALSE]
               [] kind = "air" ->
                    [p EXCEPT !.vy = JumpStrength * Scale,
                              !.jumps_left = p.jumps_left - 1]
               [] OTHER -> p

\* Player.handle_input, the direction chosen for the frame set
InputDirection(p, k, e3d) ==
    IF k.a THEN "left"
    ELSE IF k.d THEN "right"
    ELSE IF ~p.on_ground \/ UpPressed(k, e3d) THEN "up"
    ELSE "down"

\* Player.set_active_direction_frames
SetActiveDirectionFrames(p, direction) ==
    IF p.last_direction # direction
    THEN [p EXCEPT !.active_set = direction, !.frame_index = 0,
                   !.animation_timer = 0, !.last_direction = direction]
    ELSE [p EXCEPT !.active_set = direction]

\* Player.handle_input, frame-set selection
InputFrames(p, k, e3d) ==
    LET any_dir == k.a \/ k.d \/ UpPressed(k, e3d)
        direction == InputDirection(p, k, e3d)
    IN  IF any_dir
        THEN SetActiveDirectionFrames([p EXCEPT !.facing = direction], direction)
        ELSE IF p.on_ground
        THEN [p EXCEPT !.active_set = "idle", !.frame_index = 0,
                       !.animation_timer = 0, !.image = Image("idle", 0),
                       !.img_w = FrameSize]
        ELSE p

\* Player.handle_input (side view; side_view is never cleared)
HandleInput(p, k, mode, e3d) ==
    LET up == UpPressed(k, e3d)
        p1 == [p EXCEPT !.z = InputDepth(p, k, e3d),
                        !.left_pressed = k.a, !.right_pressed = k.d,
                        !.up_pressed = up]
        p2 == [p1 EXCEPT !.x = InputMoveX(p1, k)]
        p3 == InputJump(p2, k, mode, e3d)
        p4 == InputFrames(p3, k, e3d)
    IN  [p4 EXCEPT !.any_dir_pressed = k.a \/ k.d \/ up,
                   !.prev_up_pressed = up]

\* Player.start_attack
StartAttack(p) ==
    [p EXCEPT !.is_attacking = TRUE, !.attack_timer = 0, !.frame_index = 0]

\* a faulty handle_mouse_attack: the cooldown is not respected
HandleMouseAttackEager(p, mouse) ==
    IF mouse /\ ~p.is_attacking
    THEN StartAttack(p) ELSE p

\* a faulty handle_mouse_attack: the button starts an attack in any state
HandleMouseAttackUnguarded(p, mouse) ==
    IF mouse THEN StartAttack(p) ELSE p

\* Player.handle_mouse_attack
HandleMouseAttack(p, mouse) ==
    IF mouse /\ ~p.is_attacking /\ p.attack_cooldown = 0
    THEN StartAttack(p) ELSE p

\* Player.get_attack_hitbox (None is modelled as an empty rectangle)
AttackHitbox(p) ==
    LET r == PlayerRect(p)
    IN  IF ~p.is_attacking THEN Rect(0, 0, 0, 0)
        ELSE IF p.facing = "right"
                \/ (p.last_direction = "none" /\ p.right_pressed)
        THEN Rect(r.x + r.w, r.y, AttackRange, r.h)
        ELSE IF p.facing = "left" \/ p.left_pressed
        THEN Rect(r.x - AttackRange, r.y, AttackRange, r.h)
        ELSE IF p.facing = "up"
        THEN Rect(r.x, r.y - AttackRange, r.h, AttackRange)
        ELSE Rect(r.x, r.y + r.h, r.h, AttackRange)


\* Player.update, top: the active set defaults to the idle pair
UpdateActiveSet(p) ==
    IF p.active_set = "none" THEN [p EXCEPT !.active_set = "idle"] ELSE p

\* a faulty cooldown: the counter runs upwards
UpdateCooldownUp(p) ==
    IF p.attack_cooldown > 0
    THEN [p EXCEPT !.attack_cooldown = p.attack_cooldown + 1] ELSE p

\* Player.update, attack cooldown
UpdateCooldown(p) ==
    IF p.attack_cooldown > 0
    THEN [p EXCEPT !.attack_cooldown = p.attack_cooldown - 1] ELSE p

\* a faulty end of the attack: the cooldown starts while the attack goes on
UpdateAttackEarly(p, e3d) ==
    LET t == p.attack_timer + 1
        useLeft == p.facing = "left" \/ p.left_pressed
        n == IF useLeft THEN PunchFramesLeft ELSE PunchFramesRight
        img == Image(IF useLeft THEN "punch_left" ELSE "punch_right",
                     (t \div 2) % n)
        p1 == [p EXCEPT !.attack_timer = t, !.image = img,
                        !.img_w = ScaledSize(p.z, e3d)]
    IN  IF t >= AttackDuration
        THEN [p1 EXCEPT !.is_attacking = FALSE, !.attack_timer = 0,
                        !.attack_cooldown = AttackCooldownDuration]
        ELSE IF t >= AttackDuration - 1
        THEN [p1 EXCEPT !.attack_cooldown = AttackCooldownDuration]
        ELSE p1

\* Player.update, the attack branch: punch frame, end of the attack
UpdateAttack(p, e3d) ==
    LET t == p.attack_timer + 1
        useLeft == p.facing = "left" \/ p.left_pressed
        n == IF useLeft THEN PunchFramesLeft ELSE PunchFramesRight
        img == Image(IF useLeft THEN "punch_left" ELSE "punch_right",
                     (t \div 2) % n)
        p1 == [p EXCEPT !.attack_timer = t, !.image = img,
                        !.img_w = ScaledSize(p.z, e3d)]
    IN  IF t >= AttackDuration
        THEN [p1 EXCEPT !.is_attacking = FALSE, !.attack_timer = 0,
                        !.attack_cooldown = AttackCooldownDuration]
        ELSE p1

\* Player.update, horizontal impulse and its decay
PhysicsImpulse(p) ==
    IF Abs(p.vx) > Scale \div 2
    THEN [p EXCEPT !.x = p.x + p.vx, !.vx = RoundDiv(p.vx * 85, 100)]
    ELSE [p EXCEPT !.vx = 0]

\* Player.update, clamp to the horizontal bounds
PhysicsClamp(p) ==
    IF p.x - HalfW(p) < 0
    THEN [p EXCEPT !.x = HalfW(p), !.vx = 0]
    ELSE IF p.x + HalfW(p) > SCREEN_WIDTH * Scale
    THEN [p EXCEPT !.x = SCREEN_WIDTH * Scale - HalfW(p), !.vx = 0]
    ELSE p

\* Player.update, wall slide detection
PhysicsWall(p) ==
    LET p0 == [p EXCEPT !.on_wall = FALSE, !.wall_dir = "none"]
    IN  IF p.on_ground THEN p0
        ELSE IF p.left_pressed /\ (p.x - HalfW(p)) <= 0
        THEN [p0 EXCEPT !.on_wall = TRUE, !.wall_dir = "left",
                        !.vy = Min(p.vy, WallSlideMax * Scale)]
        ELSE IF p.right_pressed /\ (p.x + HalfW(p)) >= SCREEN_WIDTH * Scale
        THEN [p0 EXCEPT !.on_wall = TRUE, !.wall_dir = "right",
                        !.vy = Min(p.vy, WallSlideMax * Scale)]
        ELSE p0

\* Player.update, gravity and vertical motion
PhysicsGravity(p, mode) ==
    LET vy1 == IF mode = "math" /\ p.up_pressed THEN p.vy
               ELSE p.vy + Gravity * Scale
    IN  [p EXCEPT !.vy = vy1, !.y = p.y + IntPx(vy1) * Scale]

\* a faulty ground contact: the position is not snapped to the floor
PhysicsGroundNoSnap(p) ==
    IF p.y + HalfW(p) >= MATRIX_HEIGHT * Scale
    THEN [p EXCEPT !.vy = 0, !.on_ground = TRUE, !.jumps_left = MaxJumps,
                   !.is_jumping = FALSE]
    ELSE [p EXCEPT !.on_ground = FALSE,
                   !.is_jumping = IF ~p.on_wall THEN TRUE ELSE p.is_jumping]

\* a faulty ground contact: the jump budget is not refilled
PhysicsGroundNoRefill(p) ==
    IF p.y + HalfW(p) >= MATRIX_HEIGHT * Scale
    THEN [p EXCEPT !.y = MATRIX_HEIGHT * Scale - HalfW(p), !.vy = 0,
                   !.on_ground = TRUE, !.is_jumping = FALSE]
    ELSE [p EXCEPT !.on_ground = FALSE,
                   !.is_jumping = IF ~p.on_wall THEN TRUE ELSE p.is_jumping]

\* Player.update, ground contact
PhysicsGround(p) ==
    IF p.y + HalfW(p) >= MATRIX_HEIGHT * Scale
    THEN [p EXCEPT !.y = MATRIX_HEIGHT * Scale - HalfW(p), !.vy = 0,
                   !.on_ground = TRUE, !.jumps_left = MaxJumps,
                   !.is_jumping = FALSE]
    ELSE [p EXCEPT !.on_ground = FALSE,
                   !.is_jumping = IF ~p.on_wall THEN TRUE ELSE p.is_jumping]

\* Player.update, the side-view physics block
Physics(p, mode) ==
    PhysicsGround(PhysicsGravity(PhysicsWall(PhysicsClamp(PhysicsImpulse(p))), mode))

\* Player.update, the frame shown: jump frame, or the animation advanced
UpdateFrame(p, e3d) ==
    IF p.is_jumping
    THEN [p EXCEPT !.image = Image(IF p.facing = "right" \/ p.right_pressed
                                   THEN "jump_right" ELSE "jump_left", 0),
                   !.img_w = ScaledSize(p.z, e3d)]
    ELSE LET threshold == IF p.any_dir_pressed
                          THEN Max(1, 60 \div AnimationSpeed)
                          ELSE Max(1, 60 \div IdleAnimationSpeed)
             t == p.animation_timer + 1
             fi == (p.frame_index + 1) % 2
         IN  IF t >= threshold
             THEN [p EXCEPT !.animation_timer = 0, !.frame_index = fi,
                            !.image = Image(p.active_set, fi),
                            !.img_w = ScaledSize(p.z, e3d)]
             ELSE [p EXCEPT !.animation_timer = t]

\* Player.update
PlayerUpdate(p, mode, e3d) ==
    LET p1 == UpdateCooldown(UpdateActiveSet(p))
    IN  IF p1.is_attacking
        THEN UpdateAttack(p1, e3d)
        ELSE UpdateFrame(Physics(p1, mode), e3d)

-----------------------------------------------------------------------------
(* Falling actors.  A record's field alive is cleared by kill(). *)

\* MatrixCharacter.__init__
NewCharacter(x, y, speed) ==
    [x |-> x * Scale, y |-> y * Scale, speed |-> speed, alive |-> TRUE]

\* MatrixCharacter.update
CharacterUpdate(c) ==
    LET y1 == c.y + c.speed
    IN  [c EXCEPT !.y = y1, !.alive = ~(y1 > MATRIX_HEIGHT * Scale)]

CharacterRect(c) == Rect(IntPx(c.x), IntPx(c.y), CharW, CharH)

\* Enemy.__init__; force records the force of the last apply_knockback
\* (no code reads it)
NewEnemy(x, y, speed) ==
    [x |-> x * Scale, y |-> y * Scale, speed |-> speed + Scale,
     knocked_back |-> FALSE, knockback_vx |-> 0, knockback_vy |-> 0,
     was_hit_by_player |-> FALSE, alive |-> TRUE, force |-> 0]

\* Enemy.update, v * knockback_decay (0.95).  The product is cut to whole
\* hundredths towards zero, so that, as in the program, the velocity dies
\* out and the whole flight stays within 20 times the first velocity.
Decayed(v) == IF v >= 0 THEN (v * 95) \div 100 ELSE -(((-v) * 95) \div 100)

\* Enemy.update: knockback flight with decay, or the normal fall
EnemyUpdate(e) ==
    IF e.knocked_back
              THEN LET x1 == e.x + e.knockback_vx
                       y1 == e.y + e.knockback_vy
                   IN  [e EXCEPT !.x = x1, !.y = y1,
                          !.knockback_vx = Decayed(e.knockback_vx),
                          !.knockback_vy = Decayed(e.knockback_vy),
                          !.alive =
                             ~(\/ x1 < -(OffScreenMargin * Scale)
                               \/ x1 > (SCREEN_WIDTH + OffScreenMargin) * Scale
                               \/ y1 < -(OffScreenMargin * Scale)
                               \/ y1 > (SCREEN_HEIGHT + OffScreenMargin) * Scale)]
              ELSE LET y1 == e.y + e.speed
                   IN  [e EXCEPT !.y = y1,
                                 !.alive = ~(y1 > MATRIX_HEIGHT * Scale)]

\* Enemy.rect: topleft = int(pos), set at the end of update (pos changes
\* nowhere else)
EnemyRect(e) == Rect(IntPx(e.x), IntPx(e.y), EnemyW, EnemyH)

\* Enemy.apply_knockback with the direction (dx, dy) / max(1, |(dx, dy)|)
\* taken from the offsets dx, dy in hundredths
ApplyKnockback(e, dx, dy, force) ==
    LET dist == Max(Scale, ISqrt(dx * dx + dy * dy))
    IN  [e EXCEPT !.knocked_back = TRUE, !.was_hit_by_player = TRUE,
                  !.knockback_vx = RoundDiv(dx * force * Scale, dist),
                  !.knockback_vy = RoundDiv(dy * force * Scale, dist),
                  !.force = force]

\* Pill.__init__
NewPill(x, y, speed, type) ==
    [x |-> x * Scale, y |-> y * Scale, speed |-> speed - Scale \div 2,
     pill_type |-> type, alive |-> TRUE]

\* Pill.update
PillUpdate(c) ==
    LET y1 == c.y + c.speed
    IN  [c EXCEPT !.y = y1, !.alive = ~(y1 > MATRIX_HEIGHT * Scale)]

PillRect(c) == Rect(IntPx(c.x), IntPx(c.y), PillW, PillH)

\* the members of a pool that are still alive, in order
Alive(pool) == SelectSeq(pool, LAMBDA s: s.alive)

\* every member of a pool updated
MapSeq(pool, Op(_)) == [i \in 1..Len(pool) |-> Op(pool[i])]


-----------------------------------------------------------------------------
(* Game *)

\* the keys of pygame.key.get_pressed() that the game reads
Keys(a, d, w, s, space) == [a |-> a, d |-> d, w |-> w, s |-> s, space |-> space]
NoKeys == Keys(FALSE, FALSE, FALSE, FALSE, FALSE)
KeyLeft == Keys(TRUE, FALSE, FALSE, FALSE, FALSE)
KeyRight == Keys(FALSE, TRUE, FALSE, FALSE, FALSE)
KeyUp == Keys(FALSE, FALSE, TRUE, FALSE, FALSE)

\* the random draws of one spawn_characters call
Draw(chars, enemy) == [chars |-> chars, enemy |-> enemy]

\* the value of the history variable last
Did(op, k, mouse) == [op |-> op, k |-> k, mouse |-> mouse]

\* Game.start_game: the player it creates, snapped to the floor
StartPlayer ==
    LET p == NewPlayer(SCREEN_WIDTH \div 2, MATRIX_HEIGHT - 100)
    IN  [p EXCEPT !.y = MATRIX_HEIGHT * Scale - HalfW(p)]

\* Game.spawn_pills
SpawnPills(speed) ==
    << NewPill(SCREEN_WIDTH \div 3, -50, speed, "red"),
       NewPill((SCREEN_WIDTH * 2) \div 3, -50, speed, "blue") >>

\* Game.spawn_characters: sp.chars are the 1..3 drawn positions of the
\* collectibles, sp.enemy the position of the enemy when one is drawn
SpawnedCharacters(sp, speed) ==
    [i \in 1..Len(sp.chars) |-> NewCharacter(sp.chars[i][1], sp.chars[i][2], speed)]

SpawnedEnemies(sp, speed) ==
    [i \in 1..Len(sp.enemy) |-> NewEnemy(sp.enemy[i][1], sp.enemy[i][2], speed)]

\* Game.update, contact of the player with an enemy
IsContact(p, e) == CollideRect(PlayerRect(p), EnemyRect(e))

\* a faulty timing test: the last tick of the parry window is excluded
IsParryStrict(p) == p.is_attacking /\ p.attack_timer < AttackParryWindow

\* Game.update, the timing test of a contact
IsParry(p) == p.is_attacking /\ p.attack_timer <= AttackParryWindow

\* Game.update, a contact resolved: knockback away from the player
ResolveContact(p, e) ==
    ApplyKnockback(e, e.x - p.x, e.y - p.y,
                   IF IsParry(p) THEN ParryForce ELSE MissForce)

\* a faulty ranged test: enemies touching the player are not left out
IsRangedHitAlso(p, e) ==
    /\ p.is_attacking
    /\ CollideRect(AttackHitbox(p), EnemyRect(e))

\* Game.update, an enemy in the attack hitbox but not touching the player
IsRangedHit(p, e) ==
    /\ p.is_attacking
    /\ CollideRect(AttackHitbox(p), EnemyRect(e))
    /\ ~CollideRect(PlayerRect(p), EnemyRect(e))

\* Game.update, the direction of a ranged knockback
RangedDirection(p) ==
    IF p.facing = "right" \/ p.right_pressed THEN <<1, 0>>
    ELSE IF p.facing = "left" \/ p.left_pressed THEN <<-1, 0>>
    ELSE IF p.facing = "up" THEN <<0, -1>>
    ELSE <<0, 1>>

ResolveRanged(p, e) ==
    ApplyKnockback(e, RangedDirection(p)[1] * Scale,
                   RangedDirection(p)[2] * Scale, RangedForce)

\* Game.update, both enemy loops applied to one enemy
ResolveEnemy(p, e) ==
    LET e1 == IF IsContact(p, e) THEN ResolveContact(p, e) ELSE e
    IN  IF IsRangedHit(p, e1) THEN ResolveRanged(p, e1) ELSE e1

\* a faulty count: every enemy that left the pool, hit or not
DestroyedAny(pool) == Len(SelectSeq(pool, LAMBDA e: ~e.alive))

\* Game.update, the enemies of the pool before the update pass that are
\* no longer in it afterwards and carry the player-destroyed flag
Destroyed(pool) ==
    Len(SelectSeq(pool, LAMBDA e: ~e.alive /\ e.was_hit_by_player))

\* a faulty award: the reward is assigned to the score, not added
AwardedAssign(sc, destroyed) ==
    IF destroyed > 0 THEN EnemyReward * destroyed ELSE sc

\* Game.update, the score after the reward for the destroyed enemies
Awarded(sc, destroyed) == sc + EnemyReward * destroyed

\* a faulty round test: it is skipped once the score offers the pills
RoundDoneBelow(sc) == sc >= RoundScore /\ sc < PillScore

\* Game.update, the score test that completes a round
RoundDone(sc) == sc >= RoundScore

\* a faulty end test: the game goes on at health 0
EndStateBelowZero(h) ==
    IF h < 0 THEN STATE_GAME_OVER ELSE STATE_PLAYING

\* Game.update, the state a tick ends in: game over once health is used up
EndState(h) ==
    IF h <= 0 THEN STATE_GAME_OVER ELSE STATE_PLAYING

\* a faulty spawn test: the event comes one tick early
SpawnDueEarly(timer) == timer + 1 >= SpawnInterval

\* Game.update, the spawn test on the incremented timer
SpawnDue(timer) == timer + 1 > SpawnInterval

\* Game.update, the ambient difficulty ramp
RampedSpeed(speed, time) ==
    IF time % RampPeriod = 0
    THEN Min(speed + Scale \div 2, MaxDropSpeed * Scale)
    ELSE speed

\* Game.update, the last pill type among those the player touches
RECURSIVE PillChoice(_, _, _)
PillChoice(p, pool, acc) ==
    IF pool = <<>> THEN acc
    ELSE PillChoice(p, Tail(pool),
                    IF CollideRect(PlayerRect(p), PillRect(Head(pool)))
                    THEN Head(pool).pill_type ELSE acc)

\* Game.update for the input snapshot k (keys), mouse (left button) and the
\* random draws sp of spawn_characters.  p3 is the player and en1 the
\* enemies after all_sprites.update (each the one element of its set).
Tick(k, mouse, sp) ==
    /\ state = STATE_PLAYING
    /\ LET p2 == HandleMouseAttack(
                    HandleInput(player, k, current_mode, enable_3d), mouse)
       IN \E p3 \in {PlayerUpdate(p2, current_mode, enable_3d)},
             en1 \in {MapSeq(enemies, EnemyUpdate)} :
       LET ch1 == Alive(MapSeq(characters, CharacterUpdate))
           pl1 == Alive(MapSeq(pills, PillUpdate))
           destroyed == Destroyed(en1)
           score1 == Awarded(score, destroyed)
           en2 == Alive(en1)
       IN  IF RoundDone(score1)
           THEN /\ state' = STATE_ROUND_COMPLETE
                /\ score' = score1
                /\ player' = p3
                /\ enemies' = en2
                /\ characters' = ch1
                /\ pills' = pl1
                /\ last' = Did("tick", k, mouse)
                /\ UNCHANGED term
                /\ UNCHANGED <<keys_collected, health, spawn_timer, game_time,
                               current_round, pill_offered, drop_speed,
                               enable_3d, current_mode>>
           ELSE LET offer == ~pill_offered /\ score1 >= PillScore
                    pl2 == IF offer THEN pl1 \o SpawnPills(drop_speed) ELSE pl1
                    spawnNow == SpawnDue(spawn_timer)
                    ch2 == IF spawnNow
                           THEN ch1 \o SpawnedCharacters(sp, drop_speed) ELSE ch1
                    en3 == IF spawnNow
                           THEN en2 \o SpawnedEnemies(sp, drop_speed) ELSE en2
                    ch3 == SelectSeq(ch2, LAMBDA c:
                              ~CollideRect(PlayerRect(p3), CharacterRect(c)))
                    collected == Len(ch2) - Len(ch3)
                    contacts == Len(SelectSeq(en3, LAMBDA e: IsContact(p3, e)))
                    health1 == IF IsParry(p3) THEN health
                               ELSE health - MissDamage * contacts
                    en4 == [i \in 1..Len(en3) |-> ResolveEnemy(p3, en3[i])]
                    choice == PillChoice(p3, pl2, "none")
                    blue == \E i \in 1..Len(pl2) :
                               /\ pl2[i].pill_type = "blue"
                               /\ CollideRect(PlayerRect(p3), PillRect(pl2[i]))
                    time1 == game_time + 1
                IN  /\ score' = score1 + collected
                    /\ keys_collected' = keys_collected + collected
                    /\ health' = health1
                    /\ spawn_timer' = IF spawnNow THEN 0 ELSE spawn_timer + 1
                    /\ game_time' = time1
                    /\ pill_offered' = (pill_offered \/ offer)
                    /\ drop_speed' = RampedSpeed(drop_speed, time1)
                    /\ enable_3d' = IF choice = "red" THEN TRUE
                                    ELSE IF choice = "blue" THEN FALSE
                                    ELSE enable_3d
                    /\ player' = IF blue THEN [p3 EXCEPT !.z = 0] ELSE p3
                    /\ characters' = ch3
                    /\ enemies' = en4
                    /\ pills' = IF choice = "none" THEN pl2 ELSE <<>>
                    /\ state' = EndState(health1)
                    /\ last' = Did("tick", k, mouse)
                    /\ UNCHANGED term
                    /\ UNCHANGED <<current_round, current_mode>>

\* a faulty start: the round counter of the previous session is kept
StartGameSameRound ==
    /\ state = STATE_MENU
    /\ state' = STATE_PLAYING
    /\ player' = StartPlayer
    /\ score' = 0
    /\ keys_collected' = 0
    /\ health' = FullHealth
    /\ spawn_timer' = 0
    /\ game_time' = 0
    /\ pill_offered' = FALSE
    /\ characters' = <<>>
    /\ enemies' = <<>>
    /\ pills' = <<>>
    /\ last' = Did("start_game", NoKeys, FALSE)
    /\ UNCHANGED term
    /\ UNCHANGED <<drop_speed, enable_3d, current_mode, current_round>>

\* Game.show_menu -> Game.start_game: any key but ESC starts a game
StartGame ==
    /\ state = STATE_MENU
    /\ state' = STATE_PLAYING
    /\ player' = StartPlayer
    /\ score' = 0
    /\ keys_collected' = 0
    /\ health' = FullHealth
    /\ spawn_timer' = 0
    /\ game_time' = 0
    /\ current_round' = 1
    /\ pill_offered' = FALSE
    /\ characters' = <<>>
    /\ enemies' = <<>>
    /\ pills' = <<>>
    /\ last' = Did("start_game", NoKeys, FALSE)
    /\ UNCHANGED term
    /\ UNCHANGED <<drop_speed, enable_3d, current_mode>>

\* a faulty round start: the score starts again from 0
StartNextRoundFresh ==
    /\ current_round' = current_round + 1
    /\ state' = STATE_PLAYING
    /\ health' = FullHealth
    /\ spawn_timer' = 0
    /\ drop_speed' = drop_speed + Scale
    /\ score' = 0
    /\ characters' = <<>>
    /\ enemies' = <<>>
    /\ pills' = <<>>
    /\ UNCHANGED <<keys_collected, game_time, pill_offered, enable_3d,
                   current_mode, player>>

\* a faulty round start: health is carried over from the round before
StartNextRoundHurt ==
    /\ current_round' = current_round + 1
    /\ state' = STATE_PLAYING
    /\ spawn_timer' = 0
    /\ drop_speed' = drop_speed + Scale
    /\ characters' = <<>>
    /\ enemies' = <<>>
    /\ pills' = <<>>
    /\ UNCHANGED <<score, keys_collected, game_time, pill_offered, enable_3d,
                   current_mode, player, health>>

\* Game.start_next_round
StartNextRound ==
    /\ current_round' = current_round + 1
    /\ state' = STATE_PLAYING
    /\ health' = FullHealth
    /\ spawn_timer' = 0
    /\ drop_speed' = drop_speed + Scale
    /\ characters' = <<>>
    /\ enemies' = <<>>
    /\ pills' = <<>>
    /\ UNCHANGED <<score, keys_collected, game_time, pill_offered, enable_3d,
                   current_mode, player>>

\* a faulty round test: one more round is played
IsFinalRoundLate(r) == r > FinalRound

\* Game.draw_round_complete, the test that ends the game after the rounds
IsFinalRound(r) == r >= FinalRound

\* Game.draw_round_complete: SPACE on the round-complete screen
ConfirmRound ==
    /\ state = STATE_ROUND_COMPLETE
    /\ last' = Did("confirm_round", NoKeys, FALSE)
    /\ UNCHANGED term
    /\ IF IsFinalRound(current_round)
       THEN /\ state' = STATE_GAME_OVER
            /\ UNCHANGED <<score, keys_collected, health, spawn_timer,
                           game_time, current_round, pill_offered, drop_speed,
                           enable_3d, current_mode, player, characters,
                           enemies, pills>>
       ELSE StartNextRound

\* a faulty confirmation: the game-over screen leads back into the game
ConfirmGameOverReplay ==
    /\ state = STATE_GAME_OVER
    /\ state' = STATE_PLAYING
    /\ characters' = <<>>
    /\ enemies' = <<>>
    /\ last' = Did("confirm_game_over", NoKeys, FALSE)
    /\ UNCHANGED term
    /\ UNCHANGED <<score, keys_collected, health, spawn_timer, game_time,
                   current_round, pill_offered, drop_speed, enable_3d,
                   current_mode, player, pills>>

\* Game.draw_game_over: SPACE on the game-over screen
ConfirmGameOver ==
    /\ state = STATE_GAME_OVER
    /\ state' = STATE_MENU
    /\ characters' = <<>>
    /\ enemies' = <<>>
    /\ last' = Did("confirm_game_over", NoKeys, FALSE)
    /\ UNCHANGED term
    /\ UNCHANGED <<score, keys_collected, health, spawn_timer, game_time,
                   current_round, pill_offered, drop_speed, enable_3d,
                   current_mode, player, pills>>

\* Game.handle_events: ESC while playing returns to the menu
Escape ==
    /\ state = STATE_PLAYING
    /\ state' = STATE_MENU
    /\ characters' = <<>>
    /\ enemies' = <<>>
    /\ last' = Did("escape", NoKeys, FALSE)
    /\ UNCHANGED term
    /\ UNCHANGED <<score, keys_collected, health, spawn_timer, game_time,
                   current_round, pill_offered, drop_speed, enable_3d,
                   current_mode, player, pills>>

\* Game.handle_events: a number key selects the character-set mode
ModeKey(m) ==
    /\ state = STATE_PLAYING
    /\ current_mode # m
    /\ current_mode' = m
    /\ last' = Did("mode_key", NoKeys, FALSE)
    /\ UNCHANGED term
    /\ UNCHANGED <<state, score, keys_collected, health, spawn_timer,
                   game_time, current_round, pill_offered, drop_speed,
                   enable_3d, player, characters, enemies, pills>>


-----------------------------------------------------------------------------
(* The terminal-effect program (src/seed.py, matrix_effect_pygame).  A     *)
(* text is a sequence of one-character strings; the program's locals are   *)
(* the fields of term.                                                     *)

\* errno.ENOENT
ENOENT == 2

\* a str value and an int value of the program
StrValue(s) == [type |-> "str", chars |-> s, value |-> 0]
IntValue(n) == [type |-> "int", chars |-> <<>>, value |-> n]

\* str.isspace for one character
IsSpace(c) == c = " "

\* text[a:b] (0-based, b exclusive, clamped to the text like a Python slice)
Slice(s, a, b) == SubSeq(s, Min(a, Len(s)) + 1, Min(b, Len(s)))

\* text.lstrip("> "): strips every leading '>' and ' '
RECURSIVE Lstrip(_)
Lstrip(s) ==
    IF s # <<>> /\ Head(s) \in {">", " "} THEN Lstrip(Tail(s)) ELSE s

\* process_command(cmd, ...)[2] for a command typed from TypedChars:
\* cmd.lower().split() is empty for blanks only ("/?"), and no word of the
\* command index can be typed ("Unknown command")
process_command(cmd) ==
    IF \A i \in 1..Len(cmd) : IsSpace(cmd[i])
    THEN <<"/", "?">>
    ELSE <<"U", "n", "k", "n", "o", "w", "n", " ",
           "c", "o", "m", "m", "a", "n", "d">>

\* terminal_font.size(text)[0]: a fixed advance per character
CharWidth == 8
FontWidth(s) == CharWidth * Len(s)

\* the locals of matrix_effect_pygame before the event loop, and the module
\* global command_history; error is the exception that ended the program
TermInit ==
    [current_input |-> <<>>,
     cursor_pos |-> 0,
     history_index |-> -1,
     command_backup |-> <<IntValue(ENOENT)>>,
     command_history |-> <<>>,
     error |-> "none",
     events |-> 0]

\* K_RETURN: with a non-empty input line the command is stored as
\* f"> {current_input}", processed and the line is cleared; with an empty
\* line no branch applies
Return(t) ==
    IF t.current_input # <<>>
    THEN LET stored == Append(t.command_history,
                              StrValue(<<">", " ">> \o t.current_input))
         IN  [t EXCEPT !.command_history =
                           Append(stored, StrValue(process_command(t.current_input))),
                       !.command_backup = stored,
                       !.current_input = <<>>,
                       !.cursor_pos = 0,
                       !.history_index = -1]
    ELSE t

\* K_BACKSPACE that removes the character and leaves cursor_pos alone
BackspaceStay(t) ==
    IF t.cursor_pos > 0
    THEN [t EXCEPT !.current_input =
                       Slice(t.current_input, 0, t.cursor_pos - 1)
                       \o Slice(t.current_input, t.cursor_pos,
                                Len(t.current_input))]
    ELSE t

\* K_BACKSPACE
Backspace(t) ==
    IF t.cursor_pos > 0
    THEN [t EXCEPT !.current_input =
                       Slice(t.current_input, 0, t.cursor_pos - 1)
                       \o Slice(t.current_input, t.cursor_pos,
                                Len(t.current_input)),
                   !.cursor_pos = t.cursor_pos - 1]
    ELSE t

\* command_backup[-(history_index + 1)].lstrip("> ") assigned to
\* current_input: an int has no lstrip, the AttributeError leaves the loop
\* after history_index was assigned
Recall(t, hi) ==
    LET e == t.command_backup[Len(t.command_backup) - hi]
    IN  IF e.type = "str"
        THEN [t EXCEPT !.history_index = hi,
                       !.current_input = Lstrip(e.chars),
                       !.cursor_pos = Len(Lstrip(e.chars))]
        ELSE [t EXCEPT !.history_index = hi,
                       !.error = "AttributeError"]

\* K_UP
Up(t) ==
    IF t.command_backup # <<>> /\ t.history_index < Len(t.command_backup) - 1
    THEN Recall(t, t.history_index + 1)
    ELSE t

\* K_DOWN
Down(t) ==
    IF t.history_index > -1
    THEN IF t.history_index - 1 >= 0
         THEN Recall(t, t.history_index - 1)
         ELSE [t EXCEPT !.history_index = t.history_index - 1,
                        !.current_input = <<>>,
                        !.cursor_pos = 0]
    ELSE t

\* the two loops of Ctrl+Left, on the 0-based idx
RECURSIVE BackOverSpace(_, _)
BackOverSpace(s, idx) ==
    IF idx > 0 /\ IsSpace(s[idx + 1]) THEN BackOverSpace(s, idx - 1) ELSE idx

RECURSIVE BackOverWord(_, _)
BackOverWord(s, idx) ==
    IF idx > 0 /\ ~IsSpace(s[idx]) THEN BackOverWord(s, idx - 1) ELSE idx

\* the two loops of Ctrl+Right
RECURSIVE OverWord(_, _)
OverWord(s, idx) ==
    IF idx < Len(s) /\ ~IsSpace(s[idx + 1]) THEN OverWord(s, idx + 1) ELSE idx

RECURSIVE OverSpace(_, _)
OverSpace(s, idx) ==
    IF idx < Len(s) /\ IsSpace(s[idx + 1]) THEN OverSpace(s, idx + 1) ELSE idx

\* K_LEFT, with and without Ctrl
Left(t, ctrl) ==
    IF t.cursor_pos > 0
    THEN IF ctrl
         THEN [t EXCEPT !.cursor_pos =
                  BackOverWord(t.current_input,
                               BackOverSpace(t.current_input, t.cursor_pos - 1))]
         ELSE [t EXCEPT !.cursor_pos = t.cursor_pos - 1]
    ELSE t

\* K_RIGHT, with and without Ctrl
Right(t, ctrl) ==
    IF ctrl
    THEN [t EXCEPT !.cursor_pos =
             OverSpace(t.current_input, OverWord(t.current_input, t.cursor_pos))]
    ELSE IF t.cursor_pos < Len(t.current_input)
         THEN [t EXCEPT !.cursor_pos = t.cursor_pos + 1]
         ELSE t

\* K_HOME and K_END
Home(t) == [t EXCEPT !.cursor_pos = 0]
End(t) == [t EXCEPT !.cursor_pos = Len(t.current_input)]

\* K_DELETE
Delete(t) ==
    IF t.cursor_pos < Len(t.current_input)
    THEN [t EXCEPT !.current_input =
                       Slice(t.current_input, 0, t.cursor_pos)
                       \o Slice(t.current_input, t.cursor_pos + 1,
                                Len(t.current_input))]
    ELSE t

\* a printable event.unicode
Insert(t, c) ==
    [t EXCEPT !.current_input =
                  Slice(t.current_input, 0, t.cursor_pos) \o <<c>>
                  \o Slice(t.current_input, t.cursor_pos, Len(t.current_input)),
              !.cursor_pos = t.cursor_pos + 1]

\* the index the click loop ends with: the first i whose prefix is at least
\* rel_x wide, else the last i
ClickIndex(s, rel_x) ==
    LET reach == { i \in 0..Len(s) : FontWidth(Slice(s, 0, i)) >= rel_x }
    IN  IF reach # {}
        THEN CHOOSE i \in reach : \A j \in reach : i <= j
        ELSE Len(s)

\* MOUSEBUTTONDOWN at (mx, my); in_area is my >= screen_height - 30
Click(t, mx, in_area) ==
    IF in_area
    THEN [t EXCEPT !.cursor_pos = ClickIndex(t.current_input, Max(0, mx - 10))]
    ELSE t

-----------------------------------------------------------------------------
(* Initial state *)

\* the state after Game.__init__ (module globals at their initial values);
\* player is None until start_game and is modelled by the player it creates
Boot ==
    /\ state = STATE_MENU
    /\ score = 0
    /\ keys_collected = 0
    /\ health = FullHealth
    /\ spawn_timer = 0
    /\ game_time = 0
    /\ current_round = 1
    /\ pill_offered = FALSE
    /\ drop_speed = InitialDropSpeed * Scale
    /\ enable_3d = FALSE
    /\ current_mode = "default"
    /\ player = StartPlayer
    /\ characters = <<>>
    /\ enemies = <<>>
    /\ pills = <<>>
    /\ last = Did("init", NoKeys, FALSE)
    /\ term = TermInit

-----------------------------------------------------------------------------
(* Spec: whole sessions from program start.  The player stands still at    *)
(* the start position and every spawn draws three collectibles right       *)
(* above it, so that rounds are completed by collecting; ESC and the       *)
(* confirmation keys are free.                                             *)

MaxGameTime == 1600

\* x of a collectible drawn above the standing player
AboveX == 495
TopY == -10

RainDraw == Draw(<< <<AboveX, TopY>>, <<AboveX, TopY>>, <<AboveX, TopY>> >>, <<>>)

Init == Boot

PlayTick == game_time < MaxGameTime /\ Tick(NoKeys, FALSE, RainDraw)

Next ==
    \/ StartGame
    \/ PlayTick
    \/ ConfirmRound
    \/ ConfirmGameOver
    \/ Escape

Spec == Init /\ [][Next]_vars


-----------------------------------------------------------------------------
(* SpecMove: from the start of a game the player walks to the left wall    *)
(* and attacks at any time; during the first JumpTicks ticks it may jump   *)
(* instead.  The collectibles are drawn at the right edge, out of its way. *)

MoveTicks == 90
JumpTicks == 2

EdgeDraw == Draw(<< <<SCREEN_WIDTH - 20, TopY>> >>, <<>>)

MoveKeys == IF game_time < JumpTicks THEN {KeyLeft, KeyUp} ELSE {KeyLeft}

MoveTick ==
    /\ game_time < MoveTicks
    /\ \E k \in MoveKeys, m \in BOOLEAN : Tick(k, m, EdgeDraw)

NextMove ==
    \/ StartGame
    \/ MoveTick

SpecMove == Init /\ [][NextMove]_vars

-----------------------------------------------------------------------------
(* SpecCombat: play around one contact.  The initial states are states of  *)
(* a first round of a session that began at drop_speed 2, ArriveIn ticks   *)
(* before tick 1000: the player stands at the start position; an enemy     *)
(* drawn by the spawn event of tick 882 (before the third ramp step), and  *)
(* in some states a faster one drawn by the event of tick 903 (after it),  *)
(* and a collectible drawn by the event of tick 840 all first touch the    *)
(* player in tick 1000; in other states an enemy drawn near the right edge *)
(* by the event of tick 861 is about to pass the floor; score and health   *)
(* are what earlier collections and nine earlier enemies (parried or       *)
(* missed) have left.                                                      *)

CombatTicks == 45
TurnTicks == 1
ArriveIn == 20

\* the standing player: the start player after one idle tick
Standing ==
    PlayerUpdate(HandleInput(StartPlayer, NoKeys, "default", FALSE),
                 "default", FALSE)

\* Game.update, the tick of the n-th spawn event of a round
SpawnTick(n) == n * (SpawnInterval + 1)

\* Game.update, drop_speed after t ticks of a session's first game
DropSpeedAt(t) ==
    Min(InitialDropSpeed * Scale + (t \div RampPeriod) * (Scale \div 2),
        MaxDropSpeed * Scale)

\* a falling actor d updates after it was drawn
Fallen(a, d) == [a EXCEPT !.y = a.y + d * a.speed]

TouchTime == SpawnTick(42) + 118
LateTime == TouchTime - ArriveIn
LateSpeed == DropSpeedAt(LateTime)

ArrivingEnemy ==
    Fallen(NewEnemy(AboveX - 1, TopY - 37, DropSpeedAt(SpawnTick(42))),
           LateTime - SpawnTick(42))

ArrivingCharacter ==
    Fallen(NewCharacter(AboveX, TopY - 40, DropSpeedAt(SpawnTick(40))),
           LateTime - SpawnTick(40))

\* the enemy of the next spawn event, drawn a little to the right
SecondEnemy ==
    Fallen(NewEnemy(AboveX + EnemyW, TopY, DropSpeedAt(SpawnTick(43))),
           LateTime - SpawnTick(43))

\* the enemy of the spawn event before, drawn near the right edge: it
\* passes the floor unhit
PassingEnemy ==
    Fallen(NewEnemy(SCREEN_WIDTH - 20, TopY, DropSpeedAt(SpawnTick(41))),
           LateTime - SpawnTick(41))

CombatEnemies ==
    { <<ArrivingEnemy>>, <<ArrivingEnemy, SecondEnemy>>,
      <<PassingEnemy, ArrivingEnemy>> }

CombatScores == {RoundScore - 11, RoundScore - 1}
CombatHealths == {FullHealth, MissDamage}

\* the enemies that came before: as many as bring health down to MissDamage
PastEnemies == (FullHealth - MissDamage) \div MissDamage

InitCombat ==
    /\ state = STATE_PLAYING
    /\ score \in CombatScores
    /\ keys_collected = score - PastEnemies * EnemyReward
    /\ health \in CombatHealths
    /\ spawn_timer = LateTime % (SpawnInterval + 1)
    /\ game_time = LateTime
    /\ current_round = 1
    /\ pill_offered = FALSE
    /\ drop_speed = LateSpeed
    /\ enable_3d = FALSE
    /\ current_mode = "default"
    /\ player = Standing
    /\ characters = <<ArrivingCharacter>>
    /\ enemies \in CombatEnemies
    /\ pills = <<>>
    /\ last = Did("tick", NoKeys, FALSE)
    /\ term = TermInit

\* the window of play: CombatTicks ticks from the initial state, and
\* CombatTicks ticks of any game started afterwards
InWindow(t) ==
    IF t >= LateTime THEN t < LateTime + CombatTicks ELSE t < CombatTicks

\* the keys: free during the first TurnTicks ticks of the window, so that
\* the player faces any way (and may have jumped), none afterwards
CombatKeys ==
    IF InWindow(game_time + CombatTicks - TurnTicks)
    THEN {NoKeys, KeyLeft, KeyRight, KeyUp} ELSE {NoKeys}

CombatTick ==
    /\ InWindow(game_time)
    /\ \E k \in CombatKeys, m \in BOOLEAN : Tick(k, m, EdgeDraw)

NextCombat ==
    \/ CombatTick
    \/ ConfirmRound
    \/ ConfirmGameOver
    \/ StartGame
    \/ Escape

SpecCombat == InitCombat /\ [][NextCombat]_vars

-----------------------------------------------------------------------------
(* SpecJump: one game from the start.  The player walks left until it is   *)
(* a step from the left wall; for AirTicks ticks the jump key, the left    *)
(* key and the mouse button are free (ground jumps, air jumps down to an   *)
(* empty budget, wall slides and wall jumps, attacks in the air); then the *)
(* controls are released until the player has landed.                      *)

ApproachTicks == 78
AirTicks == 8
LandTicks == 45

\* the end of the free play and the end of the game
AirEnd == ApproachTicks + AirTicks
JumpEnd == AirEnd + LandTicks

KeyLeftUp == Keys(TRUE, FALSE, TRUE, FALSE, FALSE)

JumpKeys ==
    IF game_time < ApproachTicks THEN {KeyLeft}
    ELSE IF game_time < AirEnd THEN {KeyUp, KeyLeft, KeyLeftUp}
    ELSE {NoKeys}

JumpMouse ==
    IF game_time >= ApproachTicks /\ game_time < AirEnd
    THEN BOOLEAN ELSE {FALSE}

JumpTick ==
    /\ game_time < JumpEnd
    /\ \E k \in JumpKeys, m \in JumpMouse : Tick(k, m, EdgeDraw)

NextJump ==
    \/ StartGame
    \/ JumpTick

SpecJump == Init /\ [][NextJump]_vars

-----------------------------------------------------------------------------
(* SpecSlide: one game from the start with the left key held throughout.   *)
(* The player walks to the left wall; once it stands there the jump key is *)
(* free for HopTicks ticks (ground jump, wall jumps, air jumps), then only *)
(* the left key stays held while the player slides down the wall and       *)
(* lands.                                                                  *)

WallTicks == 81
HopTicks == 6
SlideTicks == 60

HopEnd == WallTicks + HopTicks
SlideEnd == HopEnd + SlideTicks

SlideKeys ==
    IF game_time >= WallTicks /\ game_time < HopEnd
    THEN {KeyLeft, KeyLeftUp} ELSE {KeyLeft}

SlideTick ==
    /\ game_time < SlideEnd
    /\ \E k \in SlideKeys : Tick(k, FALSE, EdgeDraw)

NextSlide ==
    \/ StartGame
    \/ SlideTick

SpecSlide == Init /\ [][NextSlide]_vars

-----------------------------------------------------------------------------
(* SpecCadence: the first CadenceTicks ticks of a game with the player     *)
(* standing still.  Every spawn event draws one, two or three collectibles *)
(* and one enemy or none, at the edges of the field, out of its way.       *)

CadenceTicks == 88

EdgeChar == <<SCREEN_WIDTH - 20, TopY>>
EdgeEnemy == <<0, TopY>>

CadenceDraws ==
    { Draw(c, e) : c \in {<<EdgeChar>>, <<EdgeChar, EdgeChar>>,
                          <<EdgeChar, EdgeChar, EdgeChar>>},
                   e \in {<<>>, <<EdgeEnemy>>} }

CadenceTick ==
    /\ game_time < CadenceTicks
    /\ \E dr \in CadenceDraws : Tick(NoKeys, FALSE, dr)

NextCadence ==
    \/ StartGame
    \/ CadenceTick

SpecCadence == Init /\ [][NextCadence]_vars

-----------------------------------------------------------------------------
(* SpecRanged: one game from the start.  The player stands at the start    *)
(* position; the first spawn event draws an enemy into the column of the   *)
(* left or of the right attack hitbox.  When it has fallen to the height   *)
(* of the hitbox, the left and right keys (none, either, both) and the     *)
(* mouse button are free for AimTicks ticks; then the controls are         *)
(* released and the game goes on for FlightTicks ticks.                    *)

AimFrom == 168
AimTicks == 4
FlightTicks == 20

AimEnd == AimFrom + AimTicks
RangedEnd == AimEnd + FlightTicks

KeyBoth == Keys(TRUE, TRUE, FALSE, FALSE, FALSE)

\* a column inside the left hitbox and one inside the right hitbox of the
\* standing player, clear of the player's own rect
LeftColumn == SCREEN_WIDTH \div 2 - FrameSize
RightColumn == SCREEN_WIDTH \div 2 + FrameSize - EnemyW

RangedDraws ==
    IF game_time < SpawnTick(1)
    THEN { Draw(EdgeDraw.chars, << <<LeftColumn, TopY>> >>),
           Draw(EdgeDraw.chars, << <<RightColumn, TopY>> >>) }
    ELSE { EdgeDraw }

RangedKeys ==
    IF game_time >= AimFrom /\ game_time < AimEnd
    THEN {NoKeys, KeyLeft, KeyRight, KeyBoth} ELSE {NoKeys}

RangedMouse ==
    IF game_time >= AimFrom /\ game_time < AimEnd THEN BOOLEAN ELSE {FALSE}

RangedTick ==
    /\ game_time < RangedEnd
    /\ \E k \in RangedKeys, m \in RangedMouse, sp \in RangedDraws :
          Tick(k, m, sp)

NextRanged ==
    \/ StartGame
    \/ RangedTick

SpecRanged == Init /\ [][NextRanged]_vars

-----------------------------------------------------------------------------
(* SpecHorde: one scripted game from the start.  The player walks right,   *)
(* turns left, and stands with the button held; every spawn event drops    *)
(* an enemy into the far end of its attack hitbox, where a ranged hit      *)
(* sends it left to come to rest near the left edge.  Then the player      *)
(* walks left to the resting enemies and strikes them all at once.         *)

WalkRightTicks == 59
HordeTicks == 3000
FallTicks == 200
WalkLeftTicks == 120
StrikeTicks == 30

\* the end of each phase, in ticks of game_time
StandFrom == WalkRightTicks + 1
WalkLeftFrom == StandFrom + HordeTicks
StrikeFrom == WalkLeftFrom + WalkLeftTicks
HordeEnd == StrikeFrom + StrikeTicks

\* where the player stands, in pixels: one step back from the walk right
StandX == SCREEN_WIDTH \div 2 + (WalkRightTicks - 1) * PlayerSpeed

\* the column whose enemies overlap the left hitbox by one pixel
HordeX == StandX - FrameSize \div 2 - AttackRange - EnemyW + 1

HordeKeys(t) ==
    IF t < WalkRightTicks THEN KeyRight
    ELSE IF t < StandFrom THEN KeyLeft
    ELSE IF t < WalkLeftFrom THEN NoKeys
    ELSE IF t < StrikeFrom THEN KeyLeft
    ELSE NoKeys

HordeMouse(t) ==
    \/ t >= StandFrom /\ t < WalkLeftFrom
    \/ t >= StrikeFrom

HordeDraw(t) ==
    IF t >= StandFrom /\ t < WalkLeftFrom - FallTicks
    THEN Draw(<< <<SCREEN_WIDTH - 20, TopY>> >>, << <<HordeX, TopY>> >>)
    ELSE EdgeDraw

HordeTick ==
    /\ game_time < HordeEnd
    /\ Tick(HordeKeys(game_time), HordeMouse(game_time), HordeDraw(game_time))

NextHorde ==
    \/ StartGame
    \/ HordeTick
    \/ ConfirmRound

SpecHorde == Init /\ [][NextHorde]_vars

-----------------------------------------------------------------------------
(* Properties                                                              *)

\* the attack state of a player, as the specification names it
AttackState(p) ==
    IF p.is_attacking THEN "Attacking"
    ELSE IF p.attack_cooldown > 0 THEN "Cooldown"
    ELSE "Idle"

AttackCycle ==
    { <<"Idle", "Attacking">>, <<"Attacking", "Cooldown">>,
      <<"Cooldown", "Idle">> }

\* C1: over every step that keeps the player object (every step but the
\* start of a game, which builds a new player), the attack state either
\* stays or moves Idle -> Attacking -> Cooldown -> Idle; an attack in
\* progress only counts up (it is never restarted), stays below its
\* duration, and a cooldown only counts down from at most its length.
C1_AttackCycle ==
    [][ last'.op # "start_game" =>
          /\ \/ AttackState(player') = AttackState(player)
             \/ <<AttackState(player), AttackState(player')>> \in AttackCycle
          /\ (player.is_attacking /\ player'.is_attacking /\ last'.op = "tick")
                => player'.attack_timer = player.attack_timer + 1
          /\ player'.is_attacking => player'.attack_timer < AttackDuration
          /\ player'.attack_cooldown <= AttackCooldownDuration
          /\ (AttackState(player) = "Cooldown" /\ last'.op = "tick")
                => player'.attack_cooldown = player.attack_cooldown - 1
      ]_vars

\* C1 witness: the last tick of a cooldown with the button held: the
\* player is Idle again and no attack has started
C1_Witness ==
    /\ last.op = "tick"
    /\ last.mouse
    /\ AttackState(player) = "Idle"
    /\ player.attack_timer = 0
    /\ game_time >= LateTime + AttackDuration + AttackCooldownDuration

\* the enemies touching the player
Touching(p, pool) == { i \in 1..Len(pool) : IsContact(p, pool[i]) }

AtUpdate(k, mouse) ==
    UpdateCooldown(UpdateActiveSet(
        HandleMouseAttack(HandleInput(player, k, current_mode, enable_3d),
                          mouse)))

\* C3: in every tick in which the player is attacking, position, velocity
\* and ground contact at the end of the tick are those the physics of a
\* non-attacking tick (impulse, boundary clamp, gravity, ground) gives.
C3_PhysicsWhileAttacking ==
    [][ (last'.op = "tick"
         /\ AtUpdate(last'.k, last'.mouse).is_attacking) =>
          LET q == Physics(AtUpdate(last'.k, last'.mouse), current_mode)
          IN  /\ player'.x = q.x
              /\ player'.y = q.y
              /\ player'.vx = q.vx
              /\ player'.vy = q.vy
              /\ player'.on_ground = q.on_ground
      ]_vars

\* C4: at the end of every Playing tick the player's horizontal position
\* lies within [half-width, field-width - half-width].
C4_WithinWalls ==
    last.op = "tick" =>
        /\ HalfW(player) <= player.x
        /\ player.x <= SCREEN_WIDTH * Scale - HalfW(player)

\* C5: when a Playing tick ends with the score at or above the round
\* threshold (200) and health above zero, whichever way the points came,
\* the state at the end of that tick is RoundComplete.
C5_RoundCompleteSameTick ==
    (last.op = "tick" /\ score >= RoundScore /\ health > 0)
        => state = STATE_ROUND_COMPLETE

\* C6: a tick that leaves health at zero or less ends in GameOver, whatever
\* the score; the state is never Playing or RoundComplete with health <= 0.
C6_GameOverAtZeroHealth ==
    /\ (last.op = "tick" /\ health <= 0) => state = STATE_GAME_OVER
    /\ state \in {STATE_PLAYING, STATE_ROUND_COMPLETE} => health > 0

\* C6 witness: the last health is lost in the tick in which the score
\* reaches the round threshold, and the tick ends in GameOver
C6_Witness ==
    /\ last.op = "tick"
    /\ state = STATE_GAME_OVER
    /\ health <= 0
    /\ score >= RoundScore

\* the pills of one type at the horizontal position x (pixels)
PillsAt(pool, type, x) ==
    { i \in 1..Len(pool) : pool[i].pill_type = type /\ pool[i].x = x * Scale }

\* C7: a Playing tick at whose end the score is at or above the pill
\* threshold (999), with no pill offered before it in the round, has
\* spawned exactly one red pill at one third and one blue pill at two thirds
\* of the field width and has marked pills as offered.
C7_PillsOffered ==
    [][ (last'.op = "tick" /\ ~pill_offered /\ score' >= PillScore) =>
          /\ pill_offered'
          /\ Len(pills') = 2
          /\ Cardinality(PillsAt(pills', "red", SCREEN_WIDTH \div 3)) = 1
          /\ Cardinality(PillsAt(pills', "blue", (2 * SCREEN_WIDTH) \div 3)) = 1
      ]_vars

\* C8: the round counter stays within 1..3; a confirmation in RoundComplete
\* starts the next round when the counter is below 3 and otherwise ends in
\* GameOver with the counter unchanged; only the start of a game lowers it.
C8_RoundCounter ==
    [][ /\ current_round' \in 1..FinalRound
        /\ last'.op = "confirm_round" =>
              IF current_round < FinalRound
              THEN /\ state' = STATE_PLAYING
                   /\ current_round' = current_round + 1
              ELSE /\ state' = STATE_GAME_OVER
                   /\ current_round' = current_round
        /\ last'.op # "start_game" => current_round' >= current_round
      ]_vars

\* C8 witness: the confirmation after round 3 has ended the game
C8_Witness ==
    /\ last.op = "confirm_round"
    /\ state = STATE_GAME_OVER
    /\ current_round = FinalRound

\* the hit enemies that leave the field in the next tick
Leaving ==
    { i \in 1..Len(enemies) :
        enemies[i].was_hit_by_player /\ ~EnemyUpdate(enemies[i]).alive }

\* C9: the score is never negative, and over every step but the start of a
\* game it does not decrease: a tick adds 1 per collected collectible and
\* 10 per hit enemy that left the field, every other step keeps it.
C9_ScoreMonotonic ==
    [][ /\ score' >= 0
        /\ last'.op # "start_game" => score' >= score
        /\ last'.op = "tick" =>
              score' = score + (keys_collected' - keys_collected)
                             + EnemyReward * Cardinality(Leaving)
        /\ last'.op \notin {"tick", "start_game"} => score' = score
      ]_vars

\* C9 witness: a round completed by the reward for a destroyed enemy, after
\* a collectible had been collected
C9_Witness ==
    /\ last.op = "tick"
    /\ state = STATE_ROUND_COMPLETE
    /\ score = RoundScore
    /\ keys_collected = RoundScore - (PastEnemies + 1) * EnemyReward

\* C10: no step lowers the global difficulty speed.
C10_SpeedMonotonic ==
    [][drop_speed' >= drop_speed]_vars

\* C11: in every reachable state, also after a tick in which several
\* enemies overlap the player at once, health is at least 0.
C11_HealthNonNegative == health >= 0

\* the square of the magnitude of an enemy's knockback velocity
Speed2(e) == e.knockback_vx * e.knockback_vx + e.knockback_vy * e.knockback_vy

\* the enemies that stay in the pool over the next tick
Staying == { i \in 1..Len(enemies) : EnemyUpdate(enemies[i]).alive }

\* the place in the next pool of the staying enemy at place i
Rank(i) == Cardinality({ j \in Staying : j <= i })

\* C12: over every tick, an enemy in knockback that stays in the pool ends
\* the tick with a knockback velocity of strictly smaller magnitude than it
\* had at the end of the tick before.
C12_KnockbackDecreases ==
    [][ last'.op = "tick" =>
          \A i \in Staying :
             enemies[i].knocked_back =>
                Speed2(enemies'[Rank(i)]) < Speed2(enemies[i]) ]_vars

\* the enemies never hit that pass the floor in the next tick
FallingOut ==
    { i \in 1..Len(enemies) :
        ~enemies[i].was_hit_by_player /\ ~EnemyUpdate(enemies[i]).alive }

\* the part of the score that came from enemies
EnemyScore == score - keys_collected

\* C13: a tick grants 10 points for each enemy that carries the
\* player-destroyed flag and leaves the pool in its update pass, and for
\* nothing else: an enemy never hit that passes the floor grants nothing,
\* every enemy that left is out of the next pool (so none is paid twice),
\* and no other step grants a reward.
C13_RewardOnce ==
    [][ /\ last'.op = "tick" =>
              /\ EnemyScore' = EnemyScore + EnemyReward * Cardinality(Leaving)
              /\ \A j \in 1..Len(enemies') : enemies'[j].alive
              /\ Len(enemies') - Cardinality(Staying) \in {0, 1}
        /\ last'.op # "tick" => EnemyScore' \in {EnemyScore, 0} ]_vars

\* the arriving enemy was knocked back without loss of health and has left
\* the field: the pool is empty and the score of the first round holds one
\* reward more than before
C13_Witness ==
    /\ last.op = "tick"
    /\ current_round = 1
    /\ game_time > TouchTime
    /\ enemies = <<>>
    /\ health = FullHealth
    /\ EnemyScore = (PastEnemies + 1) * EnemyReward

\* Player.update, the ground test of a tick with input k, mouse: the
\* physics block ran and found the lower edge at or below the floor
Landed(k, mouse) == ~AtUpdate(k, mouse).is_attacking /\ player'.on_ground

\* C14: the jump budget stays within 0..max_jumps; a tick in which ground
\* contact is detected ends with the full budget, and in no other tick does
\* the budget increase.
C14_JumpBudget ==
    [][ /\ player.jumps_left \in 0..MaxJumps
        /\ player'.jumps_left \in 0..MaxJumps
        /\ last'.op = "tick" =>
              IF Landed(last'.k, last'.mouse)
              THEN player'.jumps_left = MaxJumps
              ELSE player'.jumps_left <= player.jumps_left ]_vars

\* the player has spent the whole budget in the air and is one tick above
\* the floor, the controls released: the next tick lands and refills it
C14_Witness ==
    /\ last.op = "tick"
    /\ game_time >= AirEnd
    /\ game_time < JumpEnd
    /\ player.jumps_left = 0
    /\ ~player.on_ground
    /\ ~player.is_attacking
    /\ Physics(player, current_mode).on_ground

\* the lower edge of the player: vertical position plus half-height
LowerEdge(p) == p.y + HalfW(p)

\* C15: a player whose grounded flag is set has its lower edge not below
\* the floor line, and a tick in which ground contact is detected ends with
\* the lower edge on the floor line, no vertical velocity and the full jump
\* budget.
C15_GroundedOnFloor ==
    [][ /\ player.on_ground => LowerEdge(player) <= MATRIX_HEIGHT * Scale
        /\ player'.on_ground => LowerEdge(player') <= MATRIX_HEIGHT * Scale
        /\ (last'.op = "tick" /\ Landed(last'.k, last'.mouse)) =>
              /\ LowerEdge(player') = MATRIX_HEIGHT * Scale
              /\ player'.vy = 0
              /\ player'.jumps_left = MaxJumps ]_vars

\* the player stands on the floor to the right of where its walk ended: it
\* has jumped off the wall and landed
C15_Witness ==
    /\ last.op = "tick"
    /\ game_time > AirEnd
    /\ player.on_ground
    /\ LowerEdge(player) = MATRIX_HEIGHT * Scale
    /\ player.vy = 0
    /\ player.x > StartPlayer.x - ApproachTicks * PlayerSpeed * Scale

\* a tick with an all-false input snapshot that finds the player grounded,
\* not attacking and without horizontal impulse
IdleTick ==
    /\ last'.op = "tick"
    /\ last'.k = NoKeys
    /\ ~last'.mouse
    /\ player.on_ground
    /\ ~player.is_attacking
    /\ player.vx = 0

\* C16: an idle tick leaves the player's position unchanged and shows a
\* frame of the idle pair, and the animation moves on: the player's state
\* after the tick differs from the state before it (the update depends on
\* that state only, so a state that repeats shows one frame for ever and
\* never reaches the other frame of the pair).
C16_IdleCycle ==
    [][ IdleTick =>
          /\ player'.x = player.x
          /\ player'.y = player.y
          /\ player'.image.set = "idle"
          /\ player' # player ]_vars

\* C17: in every reachable state the attack's elapsed-tick counter is at
\* most the attack duration and the cooldown counter is at most the cooldown
\* length (and neither is negative).
C17_CountersBounded ==
    /\ player.attack_timer \in 0..AttackDuration
    /\ player.attack_cooldown \in 0..AttackCooldownDuration

\* the tick in which an attack has ended: the cooldown is at its full length
C17_Witness ==
    /\ last.op = "tick"
    /\ ~player.is_attacking
    /\ player.attack_timer = 0
    /\ player.attack_cooldown = AttackCooldownDuration

\* Enemy.update: the steps v, 0.95 v, 0.95^2 v, ... of a knockback flight
\* sum to less than v / (1 - 0.95) = 20 v
FlightFactor == 100 \div (100 - 95)

\* the knockback flight of e, if nothing hits e again, ends beyond the
\* extended screen bounds
CanLeave(e) ==
    LET x1 == e.x + FlightFactor * e.knockback_vx
        y1 == e.y + FlightFactor * e.knockback_vy
    IN  \/ x1 < -(OffScreenMargin * Scale)
        \/ x1 > (SCREEN_WIDTH + OffScreenMargin) * Scale
        \/ y1 < -(OffScreenMargin * Scale)
        \/ y1 > (SCREEN_HEIGHT + OffScreenMargin) * Scale

HitboxSide(p) ==
    LET h == AttackHitbox(p)
        r == PlayerRect(p)
    IN  IF h.x >= r.x + r.w THEN <<1, 0>>
        ELSE IF h.x + h.w <= r.x THEN <<-1, 0>>
        ELSE IF h.y + h.h <= r.y THEN <<0, -1>>
        ELSE <<0, 1>>

\* the player's facing, as a direction
FacingSide(p) ==
    IF p.facing = "right" THEN <<1, 0>>
    ELSE IF p.facing = "left" THEN <<-1, 0>>
    ELSE IF p.facing = "up" THEN <<0, -1>>
    ELSE <<0, 1>>

\* the staying enemies that receive a ranged hit in the next tick: inside
\* the attack hitbox after the update pass, not touching the player
RangedHits ==
    { i \in Staying : IsRangedHit(player', EnemyUpdate(enemies[i])) }

\* C20: in a tick that resolves combat, every enemy that receives a ranged
\* hit ends the tick with a knockback velocity of 35 towards the side on
\* which the hitbox lies, which is the side the player faces; and a tick in
\* which no enemy touches the player leaves health unchanged.
C20_RangedHit ==
    [][ (last'.op = "tick" /\ state' # STATE_ROUND_COMPLETE) =>
          /\ \A i \in RangedHits :
                /\ HitboxSide(player') = FacingSide(player')
                /\ enemies'[Rank(i)].knockback_vx
                      = HitboxSide(player')[1] * RangedForce * Scale
                /\ enemies'[Rank(i)].knockback_vy
                      = HitboxSide(player')[2] * RangedForce * Scale
          /\ Touching(player', enemies') = {} => health' = health ]_vars

\* an enemy overlaps the attack hitbox of the attacking player
InHitbox(p, e) == p.is_attacking /\ CollideRect(AttackHitbox(p), EnemyRect(e))

\* C21: in a tick that resolves combat, an enemy overlapping the player's
\* bounds ends the tick with the knockback of the parry classification
\* (force 40 or 30, away from the player) also when it overlaps the attack
\* hitbox; an enemy that overlaps the hitbox only ends it with the ranged
\* knockback (force 35); an enemy that overlaps neither is left as the
\* update pass left it.
C21_ContactBeforeRanged ==
    [][ (last'.op = "tick" /\ state' # STATE_ROUND_COMPLETE) =>
          \A i \in Staying :
             LET e1 == EnemyUpdate(enemies[i])
                 e2 == enemies'[Rank(i)]
             IN  IF IsContact(player', e1)
                 THEN /\ e2 = ResolveContact(player', e1)
                      /\ e2.force \in {ParryForce, MissForce}
                 ELSE IF InHitbox(player', e1)
                 THEN e2.force = RangedForce
                 ELSE e2 = e1 ]_vars

\* an enemy overlaps both the player and the attack hitbox and was resolved
\* as a contact
C21_Witness ==
    /\ last.op = "tick"
    /\ \E j \in 1..Len(enemies) :
          /\ IsContact(player, enemies[j])
          /\ InHitbox(player, enemies[j])
          /\ enemies[j].force \in {ParryForce, MissForce}

\* a jump was triggered in the step: the budget went down, or the vertical
\* velocity became more upward (gravity, the slide clamp and the ground
\* only make it less so), or the horizontal impulse grew
Jumped ==
    \/ player'.jumps_left < player.jumps_left
    \/ player'.vy < 0 /\ player'.vy < player.vy
    \/ Abs(player'.vx) > Abs(player.vx)

\* C22: outside flight mode, a tick triggers a jump only if the up-control
\* is held in it and was not held in the tick before.
C22_JumpEdgeTriggered ==
    [][ (last'.op = "tick" /\ current_mode # "math" /\ Jumped) =>
          /\ UpPressed(last'.k, enable_3d)
          /\ last.op = "tick" => ~UpPressed(last.k, enable_3d) ]_vars

\* the second air jump has just been triggered: the budget is empty and the
\* velocity is the jump strength after one tick of gravity
C22_Witness ==
    /\ last.op = "tick"
    /\ UpPressed(last.k, enable_3d)
    /\ player.jumps_left = 0
    /\ player.vy = (JumpStrength + Gravity) * Scale

\* the directional control toward the wall the player is in contact with
TowardWall(p) ==
    IF p.wall_dir = "left" THEN p.left_pressed
    ELSE IF p.wall_dir = "right" THEN p.right_pressed
    ELSE FALSE

\* C23: in every reachable state, wall contact implies that the player is
\* not grounded and that the directional control toward that wall is held.
C23_WallContact ==
    player.on_wall => (~player.on_ground /\ TowardWall(player))

\* Player.update, the wall test of a tick with input k, mouse: the physics
\* block ran and found the player in wall contact
WallDetected(k, mouse) == ~AtUpdate(k, mouse).is_attacking /\ player'.on_wall

\* C24: in every tick in which wall contact is detected, the downward
\* velocity applied to the player's position in the tick and the downward
\* velocity held at its end are at most the slide maximum 3.
C24_SlideSpeed ==
    [][ (last'.op = "tick" /\ WallDetected(last'.k, last'.mouse)) =>
          /\ player'.y - player.y <= WallSlideMax * Scale
          /\ player'.vy <= WallSlideMax * Scale ]_vars

\* a tick with input k in which the rising edge of the up-control finds the
\* player in wall contact and not grounded
WallJumpTick(k) ==
    /\ current_mode # "math"
    /\ UpPressed(k, enable_3d) /\ ~player.prev_up_pressed
    /\ player.on_wall /\ ~player.on_ground

\* the horizontal velocity that points away from the wall side
AwayFromWall(p) ==
    IF p.wall_dir = "left" THEN WallJumpImpulse * Scale
    ELSE -(WallJumpImpulse * Scale)

AirJumpTick(k) ==
    /\ current_mode # "math"
    /\ UpPressed(k, enable_3d) /\ ~player.prev_up_pressed
    /\ ~player.on_ground /\ ~player.on_wall
    /\ player.jumps_left > 0

\* C26: the jump budget goes down only in a tick whose rising edge finds the
\* player neither grounded nor in wall contact with budget > 0; such a tick
\* takes exactly one unit and sets the vertical velocity to the full jump
\* strength; the budget stays in 0..2 and goes up only in a tick that ends
\* on the ground, so at most 2 air jumps lie between two ground contacts.
C26_AirJump ==
    [][ last'.op = "tick" =>
          LET h == HandleInput(player, last'.k, current_mode, enable_3d)
          IN  /\ (h.jumps_left # player.jumps_left
                  \/ player'.jumps_left < player.jumps_left)
                    => AirJumpTick(last'.k)
              /\ AirJumpTick(last'.k) =>
                    /\ h.jumps_left = player.jumps_left - 1
                    /\ player'.jumps_left = player.jumps_left - 1
                    /\ h.vy = JumpStrength * Scale
              /\ player'.jumps_left \in 0..MaxJumps
              /\ player'.jumps_left > player.jumps_left =>
                    player'.on_ground /\ player'.jumps_left = MaxJumps ]_vars

\* the second air jump since the last ground contact has just been made
C26_Witness ==
    /\ last.op = "tick" /\ UpPressed(last.k, enable_3d)
    /\ ~player.on_ground /\ ~player.on_wall /\ ~player.is_attacking
    /\ player.jumps_left = 0
    /\ player.vy = (JumpStrength + Gravity) * Scale

\* C27: SPACE on the round-complete screen with round counter < 3 gives a
\* Playing state with the round counter one higher, health 100, the drop
\* speed one higher, the score unchanged and the collectible, enemy and
\* pill pools empty.
C27_NextRound ==
    [][ (state = STATE_ROUND_COMPLETE /\ last'.op = "confirm_round"
         /\ current_round < 3) =>
          /\ state' = STATE_PLAYING
          /\ current_round' = current_round + 1
          /\ health' = 100
          /\ drop_speed' = drop_speed + 1 * Scale
          /\ score' = score
          /\ characters' = <<>> /\ enemies' = <<>> /\ pills' = <<>> ]_vars

\* round 2 has just been started after a round in which the player was hit
\* and an enemy was knocked back for the reward that completed the round
C27_Witness ==
    /\ last.op = "confirm_round" /\ state = STATE_PLAYING
    /\ current_round = 2 /\ health = 100
    /\ score >= RoundScore /\ EnemyScore = (PastEnemies + 1) * EnemyReward
    /\ drop_speed = LateSpeed + Scale

\* C28: a key on the menu gives a Playing state with score 0, health 100,
\* round counter 1, the pill-offered flag false, the collectible, enemy and
\* pill pools empty and the player with its lower edge on the floor line,
\* whatever the session before left behind.
C28_FreshGame ==
    [][ (state = STATE_MENU /\ last'.op = "start_game") =>
          /\ state' = STATE_PLAYING
          /\ score' = 0 /\ health' = 100 /\ current_round' = 1
          /\ ~pill_offered'
          /\ characters' = <<>> /\ enemies' = <<>> /\ pills' = <<>>
          /\ LowerEdge(player') = MATRIX_HEIGHT * Scale ]_vars

\* a game has just been started after earlier sessions: the drop speed,
\* which a start does not reset, still carries their increases
C28_Witness ==
    /\ last.op = "start_game" /\ state = STATE_PLAYING
    /\ score = 0 /\ current_round = 1
    /\ drop_speed >= (InitialDropSpeed + 2) * Scale

\* the collectibles of the next pool that are not a collectible of this pool
\* moved by its update: those a spawn event added
NewCharacters ==
    { j \in 1..Len(characters') :
        \A i \in 1..Len(characters) :
            characters'[j] # CharacterUpdate(characters[i]) }

\* the enemies of the next pool that are not at the place the update moves
\* an enemy of this pool to: those a spawn event added
NewEnemies ==
    { j \in 1..Len(enemies') :
        \A i \in 1..Len(enemies) :
            \/ enemies'[j].x # EnemyUpdate(enemies[i]).x
            \/ enemies'[j].y # EnemyUpdate(enemies[i]).y }

\* C29: a tick that leaves the game Playing (or ends it) adds one to the
\* spawn timer; when the result exceeds 20 a spawn event happens and the
\* timer is 0 afterwards.  A spawn event adds 1 to 3 collectibles and at
\* most one enemy; no other tick adds an entity.
C29_SpawnCadence ==
    [][ last'.op = "tick" =>
          IF state' # STATE_ROUND_COMPLETE /\ spawn_timer + 1 > 20
          THEN /\ spawn_timer' = 0
               /\ Cardinality(NewCharacters) \in 1..3
               /\ Cardinality(NewEnemies) <= 1
          ELSE /\ state' # STATE_ROUND_COMPLETE
                    => spawn_timer' = spawn_timer + 1
               /\ NewCharacters = {} /\ NewEnemies = {} ]_vars

\* the second spawn event has just happened; the two events have added
\* five collectibles and one enemy between them
C29_Witness ==
    /\ last.op = "tick" /\ state = STATE_PLAYING
    /\ game_time = 2 * (SpawnInterval + 1) /\ spawn_timer = 0
    /\ Len(characters) = 5 /\ Len(enemies) = 1
    /\ characters[5].y = TopY * Scale

\* the animation counter and frame index after one more tick of an animation
\* that advances once every n ticks
Advanced(p, n) ==
    IF p.animation_timer + 1 >= n
    THEN [timer |-> 0, index |-> (p.frame_index + 1) % 2]
    ELSE [timer |-> p.animation_timer + 1, index |-> p.frame_index]

\* a tick in which the left or right control is held in the direction the
\* player already moves in, with no attack going on, that ends on the ground
WalkTick ==
    /\ last'.op = "tick"
    /\ last'.k.a \/ last'.k.d
    /\ player.last_direction = (IF last'.k.a THEN "left" ELSE "right")
    /\ ~AtUpdate(last'.k, last'.mouse).is_attacking
    /\ player.on_ground /\ player'.on_ground

\* the walking animation advances once every 7 ticks
WalkAnimation ==
    WalkTick =>
       /\ player'.animation_timer = Advanced(player, 7).timer
       /\ player'.frame_index = Advanced(player, 7).index

\* the idle animation, once it is shown, advances once every 20 ticks
IdleAnimation ==
    (IdleTick /\ player.active_set = "idle") =>
       /\ player'.animation_timer = Advanced(player, 20).timer
       /\ player'.frame_index = Advanced(player, 20).index

\* C30: both animations advance at a fixed rate: in a tick with a
\* directional control held (no attack, on the ground) the frame index
\* advances when 7 ticks have been counted, in a tick of a player standing
\* on the ground with no control held when 20 ticks have been counted, and
\* the count goes on from tick to tick, so that the second idle frame is
\* reached.
C30_AnimationRates == [][WalkAnimation /\ IdleAnimation]_vars

\* C31: every tick of a round after the first is the first tick after the
\* confirmation and ends the round: the state becomes RoundComplete, and
\* the score, the collected count, health, the spawn timer, the game time
\* and the drop speed are unchanged and the pools stay empty (no spawn, no
\* collection, no combat resolution, no ambient difficulty step).
C31_LaterRoundsEndAtOnce ==
    [][ (last'.op = "tick" /\ current_round >= 2) =>
          /\ last.op = "confirm_round"
          /\ state' = STATE_ROUND_COMPLETE
          /\ UNCHANGED <<score, keys_collected, health, spawn_timer,
                         game_time, drop_speed>>
          /\ characters' = <<>> /\ enemies' = <<>> /\ pills' = <<>> ]_vars

\* round 3 has just ended on its first tick
C31_Witness ==
    /\ last.op = "tick" /\ state = STATE_ROUND_COMPLETE
    /\ current_round = 3
    /\ characters = <<>> /\ enemies = <<>>

\* C32: no reachable state holds a pill or has the pill-offered flag set;
\* the 3D-mode flag is never set and the player's depth is 0.
C32_NoPills ==
    /\ pills = <<>>
    /\ ~pill_offered
    /\ ~enable_3d
    /\ player.z = 0

\* the score has reached the pill score (all at once, in the tick that
\* completed the round) and no pill has been offered
C32_Witness ==
    /\ last.op = "tick" /\ state = STATE_ROUND_COMPLETE
    /\ score >= PillScore
    /\ pills = <<>> /\ ~pill_offered

-----------------------------------------------------------------------------
(* SpecRetouch: one game from the start, the button never pressed.  The    *)
(* player walks right and stands; the first spawn event drops an enemy     *)
(* into the column next to it on the left.  When the enemy is about level  *)
(* with the player, the left key is free for StepTicks ticks, so that the  *)
(* player may step into it; then the player stands for RestTicks ticks     *)
(* and walks left for ReturnTicks ticks.                                   *)

StepFrom == 178
StepTicks == 6
RestTicks == 70
ReturnTicks == 110

StepEnd == StepFrom + StepTicks
RestEnd == StepEnd + RestTicks
RetouchEnd == RestEnd + ReturnTicks

\* the column two pixels to the left of the player that has walked right
RetouchX ==
    SCREEN_WIDTH \div 2 + WalkRightTicks * PlayerSpeed
      - FrameSize \div 2 - EnemyW - 2

RetouchKeys ==
    IF game_time < WalkRightTicks THEN {KeyRight}
    ELSE IF game_time < StepFrom THEN {NoKeys}
    ELSE IF game_time < StepEnd THEN {NoKeys, KeyLeft}
    ELSE IF game_time < RestEnd THEN {NoKeys}
    ELSE {KeyLeft}

RetouchDraw ==
    IF game_time < SpawnTick(1)
    THEN Draw(EdgeDraw.chars, << <<RetouchX, TopY>> >>)
    ELSE EdgeDraw

RetouchTick ==
    /\ game_time < RetouchEnd
    /\ \E k \in RetouchKeys : Tick(k, FALSE, RetouchDraw)

NextRetouch ==
    \/ StartGame
    \/ RetouchTick

SpecRetouch == Init /\ [][NextRetouch]_vars

\* the enemies in knockback whose last knockback came from a missed parry
Missed == { i \in 1..Len(enemies) :
              enemies[i].knocked_back /\ enemies[i].force = MissForce }

\* C33: an enemy that a missed parry has put into knockback is not
\* classified as a contact again on any later tick, and so costs no further
\* health.
C33_OneLossPerEnemy ==
    [][ last'.op = "tick" =>
          \A i \in Missed \cap Staying :
             ~IsContact(player', EnemyUpdate(enemies[i])) ]_vars

\* the state changes the claim lists
ListedChanges ==
    { <<STATE_MENU, STATE_PLAYING>>,
      <<STATE_PLAYING, STATE_ROUND_COMPLETE>>,
      <<STATE_PLAYING, STATE_GAME_OVER>>,
      <<STATE_ROUND_COMPLETE, STATE_PLAYING>>,
      <<STATE_ROUND_COMPLETE, STATE_GAME_OVER>>,
      <<STATE_GAME_OVER, STATE_MENU>> }

\* C34 (as stated): the session state changes only Menu -> Playing,
\* Playing -> RoundComplete, Playing -> GameOver, RoundComplete -> Playing,
\* RoundComplete -> GameOver and GameOver -> Menu.
C34_ListedChangesOnly ==
    [][ state' # state => <<state, state'>> \in ListedChanges ]_vars

\* C34 (amended): the session state changes only along the six listed
\* transitions and Playing -> Menu, which ESC during play takes.
C34_StateChanges ==
    [][ state' # state =>
          \/ <<state, state'>> \in ListedChanges
          \/ /\ <<state, state'>> = <<STATE_PLAYING, STATE_MENU>>
             /\ last'.op = "escape" ]_vars

\* ESC has ended a game in the middle of round 1 (Playing -> Menu), an
\* enemy still in the pool when it was pressed
C34_Witness ==
    /\ last.op = "escape" /\ state = STATE_MENU
    /\ current_round = 1 /\ score < RoundScore /\ score > 0
    /\ game_time > LateTime

-----------------------------------------------------------------------------
(* SpecScreens: the sessions of Spec, with the frames that Game.run and    *)
(* Game.show_menu spend on the menu, round-complete and game-over screens  *)
(* as steps of their own.                                                  *)

\* a faulty frame: the collectibles go on falling behind the screen
FrameFalling ==
    /\ state # STATE_PLAYING
    /\ characters' = [i \in 1..Len(characters) |-> CharacterUpdate(characters[i])]
    /\ last' = Did("frame", NoKeys, FALSE)
    /\ UNCHANGED term
    /\ UNCHANGED <<state, score, keys_collected, health, spawn_timer,
                   game_time, current_round, pill_offered, drop_speed,
                   enable_3d, current_mode, player, enemies, pills>>

\* Game.run / Game.show_menu: a frame outside play without a key event.
\* The screen is drawn; Game.update is not called
Frame ==
    /\ state # STATE_PLAYING
    /\ last' = Did("frame", NoKeys, FALSE)
    /\ UNCHANGED term
    /\ UNCHANGED <<state, score, keys_collected, health, spawn_timer,
                   game_time, current_round, pill_offered, drop_speed,
                   enable_3d, current_mode, player, characters, enemies,
                   pills>>

NextScreens ==
    \/ StartGame
    \/ PlayTick
    \/ ConfirmRound
    \/ ConfirmGameOver
    \/ Escape
    \/ Frame

SpecScreens == Init /\ [][NextScreens]_vars

\* the steps that a confirmation or activation input takes
Confirmations == {"start_game", "confirm_round", "confirm_game_over"}

\* C35: a step taken in Menu, RoundComplete or GameOver that is not a
\* confirmation or activation leaves the session state, score, health,
\* round counter, drop speed, spawn timer and game time, the player and
\* every entity of the three pools unchanged.
C35_ScreensFrozen ==
    [][ (state # STATE_PLAYING /\ last'.op \notin Confirmations) =>
          UNCHANGED <<state, score, keys_collected, health, current_round,
                      drop_speed, spawn_timer, game_time, player,
                      characters, enemies, pills>> ]_vars

\* a frame has passed on the round-complete screen with collectibles of
\* the finished round still in the pool
C35_Witness ==
    /\ last.op = "frame" /\ state = STATE_ROUND_COMPLETE
    /\ characters # <<>>

\* C36: in every reachable state, if the player is attacking then the
\* cooldown counter is 0, and if the cooldown counter is > 0 then the
\* player is not attacking and the elapsed-tick counter is 0.
C36_AttackOrCooldown ==
    /\ player.is_attacking => player.attack_cooldown = 0
    /\ player.attack_cooldown > 0 =>
          ~player.is_attacking /\ player.attack_timer = 0

\* the cooldown is half over and the button is held: no attack has started
C36_Witness ==
    /\ last.op = "tick" /\ last.mouse
    /\ player.attack_cooldown = AttackCooldownDuration \div 2
    /\ ~player.is_attacking /\ player.attack_timer = 0

\* the ticks gone by since the tick in which the last attack started, read
\* from the counters: the elapsed ticks of a running attack, the attack
\* duration plus the spent part of a running cooldown, and duration +
\* cooldown length once both have run out (or no attack was ever made)
SinceStart(p) ==
    IF p.is_attacking THEN p.attack_timer
    ELSE IF p.attack_cooldown > 0
    THEN AttackDuration + AttackCooldownDuration - p.attack_cooldown
    ELSE AttackDuration + AttackCooldownDuration

\* an attack has started in the tick
Started == player'.is_attacking /\ player'.attack_timer = 1

\* C37: an attack starts only in a tick before which 15 + 20 = 35 ticks
\* have gone by since the start of the attack before it, and it does start
\* whenever the button is held in such a tick; every other tick adds one to
\* the ticks gone by.
C37_AttackPeriod ==
    [][ last'.op = "tick" =>
          /\ Started => SinceStart(player) = 35 /\ last'.mouse
          /\ (last'.mouse /\ SinceStart(player) = 35) => Started
          /\ ~Started =>
                SinceStart(player') = Min(SinceStart(player) + 1, 35) ]_vars

\* the third attack of a game has just started, 70 ticks after the first
C37_Witness ==
    /\ last.op = "tick" /\ last.mouse
    /\ player.is_attacking /\ player.attack_timer = 1
    /\ game_time = 2 * 35 + 1

\* a tick with input k in which the rising edge of the up-control finds the
\* player grounded
GroundJumpTick(k) ==
    /\ current_mode # "math"
    /\ UpPressed(k, enable_3d) /\ ~player.prev_up_pressed
    /\ player.on_ground

\* C38: a player whose grounded flag is set has the full jump budget, and
\* a jump made from the ground leaves the budget as it is (the flag is
\* cleared, the player rises with the full jump strength).
C38_GroundedFullBudget ==
    [][ /\ player.on_ground => player.jumps_left = MaxJumps
        /\ player'.on_ground => player'.jumps_left = MaxJumps
        /\ (last'.op = "tick" /\ GroundJumpTick(last'.k)) =>
              LET h == HandleInput(player, last'.k, current_mode, enable_3d)
              IN  /\ h.jumps_left = MaxJumps /\ ~h.on_ground
                  /\ h.vy = JumpStrength * Scale
                  /\ player'.jumps_left = MaxJumps ]_vars

\* the player has come down from its jumps and stands on the floor away
\* from the wall, the controls released, with the full budget
C38_Witness ==
    /\ last.op = "tick" /\ last.k = NoKeys
    /\ player.on_ground /\ player.vy = 0 /\ ~player.is_attacking
    /\ player.jumps_left = MaxJumps
    /\ player.x > HalfW(player) + WallJumpImpulse * Scale

-----------------------------------------------------------------------------
(* SpecTerminal: the event loop of the terminal-effect program from its    *)
(* start, for every sequence of up to MaxEvents key and mouse events.  The *)
(* game is not running.                                                    *)

MaxEvents == 7

\* the printable characters typed: a letter, the blank and the prompt mark
TypedChars == {"a", " ", ">"}

\* one event handled by the loop: nothing is handled after an exception
Event(op, t) ==
    /\ term.error = "none"
    /\ term.events < MaxEvents
    /\ term' = [t EXCEPT !.events = term.events + 1]
    /\ last' = Did(op, NoKeys, FALSE)
    /\ UNCHANGED <<state, score, keys_collected, health, spawn_timer,
                   game_time, current_round, pill_offered, drop_speed,
                   enable_3d, current_mode, player, characters, enemies,
                   pills>>

\* the events of the loop; the clicks are left of the text, inside it and
\* right of it, in the input area and above it
NextTerminal ==
    \/ Event("K_RETURN", Return(term))
    \/ Event("K_BACKSPACE", Backspace(term))
    \/ Event("K_UP", Up(term))
    \/ Event("K_DOWN", Down(term))
    \/ Event("K_LEFT", Left(term, FALSE))
    \/ Event("CTRL_LEFT", Left(term, TRUE))
    \/ Event("K_RIGHT", Right(term, FALSE))
    \/ Event("CTRL_RIGHT", Right(term, TRUE))
    \/ Event("K_HOME", Home(term))
    \/ Event("K_END", End(term))
    \/ Event("K_DELETE", Delete(term))
    \/ \E c \in TypedChars : Event("unicode", Insert(term, c))
    \/ \E mx \in {0, 14, 22, 200}, in_area \in BOOLEAN :
           Event("MOUSEBUTTONDOWN", Click(term, mx, in_area))

SpecTerminal == Init /\ [][NextTerminal]_vars

\* the text entries stored in a history list, without their prompt marks
StoredTexts(backup) ==
    { Lstrip(backup[i].chars) :
        i \in { j \in 1..Len(backup) : backup[j].type = "str" } }

C40_CursorInLine ==
    term.cursor_pos \in 0 .. Len(term.current_input)

\* a click has put the cursor inside a recalled command, between its ends
C40_Witness ==
    /\ last.op = "MOUSEBUTTONDOWN"
    /\ term.history_index = 0
    /\ Len(term.current_input) = 2
    /\ term.cursor_pos = 1

=============================================================================
